---- MODULE Spec2Model ----
(***************************************************************************)
(* Job orchestration of cletus: the in-memory job registry                 *)
(* (api/services/storage-service.js) and the job lifecycle orchestrator    *)
(* (packages/api/services/job-service.ts).                                 *)
(*                                                                         *)
(* Scheduling.  The service is single-threaded async JavaScript.  A call   *)
(* of an async function runs synchronously up to its first `await`; the    *)
(* body of an awaited registry method (all of them `async`, none awaiting  *)
(* inside) therefore runs at the call, and the caller is resumed later.    *)
(* One action of this model is one such run: from the resumption after an  *)
(* `await` up to and including the body of the next awaited call.  Between *)
(* two actions of one task any other task may run.  Resumptions that touch *)
(* no shared state are folded into the action before them.  The registry   *)
(* is an interface with asynchronous backends (memory, file, redis), so no *)
(* order of resumption is assumed beyond the order within one task.        *)
(*                                                                         *)
(* Specifications.  Each one is a scenario: the calls it lets happen, over *)
(* the same actions.  SpecTerminate, SpecRace, SpecCreate, SpecDelete:     *)
(* calls of the job service on one job id.  SpecLive, SpecBatch: jobs that *)
(* run to their end, with the fairness of the event loop.  SpecRegistry,   *)
(* SpecList, SpecStream: the methods of the storage called directly, with  *)
(* a clock that advances.                                                  *)
(*                                                                         *)
(* Objects.  The registry hands out references: getJob returns the stored  *)
(* object, updateJob stores a fresh shallow copy, addOutputChunk pushes    *)
(* into the stored array.  `heap` and `arrs` keep object and array         *)
(* identity, so that a write through a held reference is seen by every     *)
(* holder of that reference and by nobody else.                            *)
(***************************************************************************)
EXTENDS Integers, Sequences, FiniteSets, TLC

(* ------------------------------ bounds -------------------------------- *)
\* number of createJob calls (each successful one owns a background task)
NCreate == 2
\* number of terminateJob calls
NTerm == 2
\* number of deleteJob calls
NDel == 1
\* stdout lines / stderr chunks one process emits at most
MaxOut == 1
MaxErr == 1
\* config.storage.maxOutputChunks and config.storage.maxJobsInMemory, scaled
MaxOutputChunks == 3
MaxJobsInMemory == 2
\* the last reading of the clock, and the largest age passed to cleanup
MaxNow == 3
MaxAge == 2
\* the `timeout` of the terminate endpoint's wait mode, in readings of the clock
TimeoutMs == 1
\* the bytes of a chunk and the chunks of a stream that are decoded
MaxChunkBytes == 2
MaxDecoded == 2
\* the items of a message's content at most
MaxItems == 3
\* the characters of a decoded text and the texts of a stream that are framed
MaxChunkChars == 2
MaxFramed == 3

\* the job ids in use, in a fixed order
IdSeq == <<"a", "b", "c">>
JobIds == {IdSeq[k] : k \in 1..Len(IdSeq)}
\* the id the calls of the job service are made with
CallIds == {IdSeq[1]}
Creates == 1..NCreate
Terms == 1..NTerm
Dels == 1..NDel
StreamNames == {"stdout", "stderr"}

VARIABLES
    jobs,       \* the Map `jobs`: job id -> reference of the stored object, 0 = absent
    order,      \* insertion order of the keys of `jobs`
    heap,       \* job objects by reference
    arrs,       \* outputHistory arrays by reference
    streams,    \* the Map `outputStreams`: job id -> stream
    now,        \* Date.now()
    used,       \* job ids handed out so far (generateJobId never repeats one)
    cr,         \* createJob calls
    bg,         \* processJobInBackground tasks, one per createJob call
    dr,         \* the two stream drains of each background task
    tm,         \* terminateJob calls
    dl,         \* deleteJob calls
    signalled,  \* processes that were sent a signal through kill()
    ret         \* the last call made on the storage directly, and what it returned

vars == <<jobs, order, heap, arrs, streams, now, used, cr, bg, dr, tm, dl, signalled, ret>>
storeVars == <<jobs, order, heap, arrs, streams>>
\* the registry and the locals that hold references into it
refVars == <<jobs, order, heap, arrs, streams, tm, dl>>

(* ------------------------------ values -------------------------------- *)
NoStream == [present |-> FALSE, chunks |-> <<>>, lastUpdate |-> 0]

\* the text of a chunk: k names what it is, p the process that wrote it, n its number
Text(k, p, n) == [k |-> k, p |-> p, n |-> n]

formatOutputChunk(text, type, jobId) ==
    [text |-> text, type |-> type, timestamp |-> now, jobId |-> jobId]

\* the last n elements of s: Array.prototype.slice(-n)
SliceLast(s, n) ==
    IF Len(s) <= n THEN s ELSE SubSeq(s, Len(s) - n + 1, Len(s))

\* { ...job, ...updates }
Spread(job, updates) ==
    [f \in DOMAIN job |-> IF f \in DOMAIN updates THEN updates[f] ELSE job[f]]

\* the smallest reference not in use
NewRef(h) == CHOOSE r \in 1..(Cardinality(DOMAIN h) + 1) : r \notin DOMAIN h

(* ------------------------- the registry (storage) --------------------- *)
\* The registry as one value, so that its methods are operators on it.
Store == [jobs |-> jobs, order |-> order, heap |-> heap, arrs |-> arrs,
          streams |-> streams]

HasJob(S, id) == S.jobs[id] # 0

\* getJob(id): the stored object's reference, 0 for null
getJob(S, id) == S.jobs[id]

StoredIds(S) == {i \in JobIds : S.jobs[i] # 0}

\* an eviction that takes terminated jobs as well
EvictableFinished(S) ==
    {i \in StoredIds(S) : S.heap[S.jobs[i]].status \in {"completed", "failed", "terminated"}}

\* the entries createJob may evict, oldest finishedAt first (insertion order on ties)
Evictable(S) ==
    {i \in StoredIds(S) : S.heap[S.jobs[i]].status \in {"completed", "failed"}}

Position(seq, x) == CHOOSE k \in 1..Len(seq) : seq[k] = x

\* an eviction that takes the entry that finished last
Newest(S) ==
    CHOOSE i \in Evictable(S) :
        \A j \in Evictable(S) :
            S.heap[S.jobs[i]].finishedAt >= S.heap[S.jobs[j]].finishedAt

Oldest(S) ==
    CHOOSE i \in Evictable(S) :
        \A j \in Evictable(S) :
            \/ S.heap[S.jobs[i]].finishedAt < S.heap[S.jobs[j]].finishedAt
            \/ /\ S.heap[S.jobs[i]].finishedAt = S.heap[S.jobs[j]].finishedAt
               /\ Position(S.order, i) <= Position(S.order, j)

Without(seq, x) == SelectSeq(seq, LAMBDA y : y # x)

\* storage.createJob throws 'Maximum job limit reached'
\* a capacity check that lets one job too many in
AtCapacityLate(S) == Cardinality(StoredIds(S)) > MaxJobsInMemory

AtCapacity(S) == Cardinality(StoredIds(S)) >= MaxJobsInMemory
CreateJobThrows(S) == AtCapacity(S) /\ Evictable(S) = {}

Evict(S) ==
    IF AtCapacity(S) /\ Evictable(S) # {}
    THEN [S EXCEPT !.jobs[Oldest(S)] = 0,
                   !.order = Without(S.order, Oldest(S)),
                   !.streams[Oldest(S)] = NoStream]
    ELSE S

\* storage.createJob(job), when it does not throw; `job` lacks outputHistory,
\* which is the fresh empty array of the object literal
StorageCreateJob(S, job) ==
    LET E == Evict(S)
        a == NewRef(E.arrs)
        r == NewRef(E.heap)
        obj == [f \in DOMAIN job \cup {"outputHistory"} |->
                    IF f = "outputHistory" THEN a ELSE job[f]]
    IN  [E EXCEPT !.arrs = [x \in DOMAIN E.arrs \cup {a} |->
                                IF x = a THEN <<>> ELSE E.arrs[x]],
                  !.heap = [x \in DOMAIN E.heap \cup {r} |->
                                IF x = r THEN obj ELSE E.heap[x]],
                  !.order = IF E.jobs[job.id] # 0 THEN E.order
                            ELSE Append(E.order, job.id),
                  !.jobs[job.id] = r]

\* storage.updateJob(id, updates), when the job exists (it throws otherwise)
StorageUpdateJob(S, id, updates) ==
    LET r == NewRef(S.heap)
        obj == Spread(S.heap[S.jobs[id]], updates)
    IN  [S EXCEPT !.heap = [x \in DOMAIN S.heap \cup {r} |->
                                IF x = r THEN obj ELSE S.heap[x]],
                  !.jobs[id] = r]

\* storage.deleteJob(id)
StorageDeleteJob(S, id) ==
    [S EXCEPT !.jobs[id] = 0,
              !.order = Without(S.order, id),
              !.streams[id] = NoStream]

\* storage.createOutputStream(jobId)
StorageCreateOutputStream(S, id) ==
    [S EXCEPT !.streams[id] = [present |-> TRUE, chunks |-> <<>>, lastUpdate |-> now]]

\* the stream half of addOutputChunk
AddToStream(st, chunk) ==
    IF ~st.present
    THEN [present |-> TRUE, chunks |-> <<chunk>>, lastUpdate |-> now]
    ELSE [present |-> TRUE,
          chunks |-> SliceLast(Append(st.chunks, chunk), MaxOutputChunks),
          lastUpdate |-> now]

\* the job half of addOutputChunk: push into the stored object's array and,
\* above the limit, give the stored object a new, sliced array
AddToHistory(S, id, chunk) ==
    IF S.jobs[id] = 0 THEN S
    ELSE LET r == S.jobs[id]
             a == S.heap[r].outputHistory
             pushed == Append(S.arrs[a], chunk)
             P == [S EXCEPT !.arrs[a] = pushed]
             b == NewRef(P.arrs)
         IN  IF Len(pushed) > MaxOutputChunks
             THEN [P EXCEPT !.arrs = [x \in DOMAIN P.arrs \cup {b} |->
                                        IF x = b THEN SliceLast(pushed, MaxOutputChunks)
                                        ELSE P.arrs[x]],
                            !.heap[r].outputHistory = b]
             ELSE P

\* storage.addOutputChunk(jobId, chunk)
StorageAddOutputChunk(S, id, chunk) ==
    AddToHistory([S EXCEPT !.streams[id] = AddToStream(S.streams[id], chunk)], id, chunk)

\* filter.status, filter.since, filter.before as a condition: the field is
\* supplied and is neither '' nor 0
Truthy(filter, k) ==
    k \in DOMAIN filter /\ filter[k] # (IF k = "status" THEN "" ELSE 0)

\* Array.prototype.sort((a, b) => b.startedAt - a.startedAt) on ids of stored
\* jobs: by startedAt descending, equal ones in the order they had
RECURSIVE SortDesc(_, _)
SortDesc(S, ids) ==
    IF ids = <<>> THEN <<>>
    ELSE LET sorted == SortDesc(S, SubSeq(ids, 1, Len(ids) - 1))
             x == ids[Len(ids)]
             k == Cardinality({n \in DOMAIN sorted :
                     S.heap[S.jobs[sorted[n]]].startedAt >= S.heap[S.jobs[x]].startedAt})
         IN  SubSeq(sorted, 1, k) \o <<x>> \o SubSeq(sorted, k + 1, Len(sorted))

\* storage.listJobs(filter): the stored jobs (by id), Map order, filtered, sorted
StorageListJobs(S, filter) ==
    LET byStatus == IF Truthy(filter, "status")
                    THEN SelectSeq(S.order,
                             LAMBDA i : S.heap[S.jobs[i]].status = filter.status)
                    ELSE S.order
        bySince == IF Truthy(filter, "since")
                   THEN SelectSeq(byStatus,
                            LAMBDA i : S.heap[S.jobs[i]].startedAt >= filter.since)
                   ELSE byStatus
        byBefore == IF Truthy(filter, "before")
                    THEN SelectSeq(bySince,
                             LAMBDA i : S.heap[S.jobs[i]].startedAt <= filter.before)
                    ELSE bySince
    IN  SortDesc(S, byBefore)

\* a getOutputStream that also returns the chunks written at `since`
StorageGetOutputStreamInclusive(S, id, since) ==
    IF ~S.streams[id].present
    THEN [null |-> TRUE, chunks |-> <<>>, lastUpdate |-> 0]
    ELSE [null |-> FALSE,
          chunks |-> IF since > 0
                     THEN SelectSeq(S.streams[id].chunks, LAMBDA c : c.timestamp >= since)
                     ELSE S.streams[id].chunks,
          lastUpdate |-> S.streams[id].lastUpdate]

\* storage.getOutputStream(jobId, since); null when there is no stream
StorageGetOutputStream(S, id, since) ==
    IF ~S.streams[id].present
    THEN [null |-> TRUE, chunks |-> <<>>, lastUpdate |-> 0]
    ELSE [null |-> FALSE,
          chunks |-> IF since > 0
                     THEN SelectSeq(S.streams[id].chunks, LAMBDA c : c.timestamp > since)
                     ELSE S.streams[id].chunks,
          lastUpdate |-> S.streams[id].lastUpdate]

\* the loop of storage.cleanup over the entries `ids` of the Map: S is the
\* registry so far and cleaned the number of jobs removed so far
RECURSIVE CleanupLoop(_, _, _, _)
CleanupLoop(S, ids, cutoffTime, cleaned) ==
    IF ids = <<>> THEN [store |-> S, cleaned |-> cleaned]
    ELSE LET job == S.heap[S.jobs[Head(ids)]]
             jobTimestamp == IF job.finishedAt # 0 THEN job.finishedAt ELSE job.startedAt
         IN  IF job.status # "running" /\ jobTimestamp # 0 /\ jobTimestamp < cutoffTime
             THEN CleanupLoop(StorageDeleteJob(S, Head(ids)), Tail(ids), cutoffTime,
                              cleaned + 1)
             ELSE CleanupLoop(S, Tail(ids), cutoffTime, cleaned)

\* a cleanup that also removes the jobs exactly as old as the cutoff
StorageCleanupInclusive(S, olderThan) == CleanupLoop(S, S.order, now - olderThan + 1, 0)

\* storage.cleanup(olderThan)
StorageCleanup(S, olderThan) == CleanupLoop(S, S.order, now - olderThan, 0)

(* ------------------------- references and commit ---------------------- *)
\* the references held by the registry and by the locals of the calls in
\* flight, holder by holder: jobs, then terminateJob calls T, then deleteJob calls D
Held(S, T, D) ==
    [k \in 1..(Len(IdSeq) + NTerm + NDel) |->
        IF k <= Len(IdSeq) THEN S.jobs[IdSeq[k]]
        ELSE IF k <= Len(IdSeq) + NTerm THEN T[k - Len(IdSeq)].job
        ELSE D[k - Len(IdSeq) - NTerm].job]

Refs(seq) == {seq[k] : k \in DOMAIN seq} \ {0}

\* the place of the first occurrence of r in seq
First(seq, r) == CHOOSE k \in DOMAIN seq : seq[k] = r /\ \A j \in 1..(k - 1) : seq[j] # r

\* the new number of every reference of seq: its rank by first occurrence
Rank(seq) ==
    [r \in Refs(seq) \cup {0} |->
        IF r = 0 THEN 0 ELSE Cardinality({seq[j] : j \in 1..First(seq, r)} \ {0})]

\* the old number of every new number
Unrank(seq, rank) ==
    [n \in 1..Cardinality(Refs(seq)) |-> CHOOSE r \in Refs(seq) : rank[r] = n]

\* The registry becomes S0, the terminateJob calls T, the deleteJob calls D.
\* Objects and arrays nobody refers to any more are dropped, and references
\* are renumbered in the order of their holders: a reference is an identity,
\* its number means nothing.
Commit(S0, T, D) ==
    \E S \in {S0} : \E hs \in {Held(S, T, D)} :
    \E ren \in {Rank(hs)} : \E old \in {Unrank(hs, ren)} :
    \E as \in {[n \in DOMAIN old |-> S.heap[old[n]].outputHistory]} :
    \E renA \in {Rank(as)} : \E oldA \in {Unrank(as, renA)} :
        /\ jobs' = [i \in JobIds |-> ren[S.jobs[i]]]
        /\ order' = S.order
        /\ streams' = S.streams
        /\ heap' = [n \in DOMAIN old |->
                       [S.heap[old[n]] EXCEPT !.outputHistory = renA[@]]]
        /\ arrs' = [m \in DOMAIN oldA |-> S.arrs[oldA[m]]]
        /\ tm' = [t \in Terms |-> [T[t] EXCEPT !.job = ren[@]]]
        /\ dl' = [d \in Dels |-> [D[d] EXCEPT !.job = ren[@]]]

CommitStore(S) == Commit(S, tm, dl)

(* ------------------------------ initial state ------------------------- *)
\* no call has been made on the storage directly
NoCall == [op |-> "", arg |-> <<>>, val |-> <<>>, n |-> 0]
IdleCreate == [pc |-> "idle", id |-> "", prompt |-> "", existing |-> FALSE, res |-> ""]
NoCompletion == [status |-> "", msg |-> "", code |-> 0, found |-> FALSE, progress |-> <<>>]
NoTask == [pc |-> "none", id |-> "", prompt |-> "", found |-> FALSE, exit |-> -1, err |-> "",
           rethrow |-> FALSE, cj |-> NoCompletion]
NoDrain == [pc |-> "off", n |-> 0, text |-> Text("", 0, 0), last |-> FALSE,
            found |-> FALSE, progress |-> <<>>]
\* a terminateJob call: its position, its argument, the object it holds, its
\* result; and what it met at the call: the job instance (inst), that job's
\* status (seen) and handle (live), and the calls then in flight (during)
IdleTerm == [pc |-> "idle", id |-> "", job |-> 0, res |-> "", cj |-> NoCompletion,
             inst |-> 0, seen |-> "", live |-> FALSE, during |-> {}]
\* a deleteJob call: position, argument, held object, result, and the status of
\* the job it met at the call (seen)
IdleDel == [pc |-> "idle", id |-> "", job |-> 0, res |-> "", seen |-> ""]

Init ==
    /\ jobs = [i \in JobIds |-> 0]
    /\ order = <<>>
    /\ heap = <<>>
    /\ arrs = <<>>
    /\ streams = [i \in JobIds |-> NoStream]
    /\ now = 1
    /\ used = {}
    /\ cr = [c \in Creates |-> IdleCreate]
    /\ bg = [c \in Creates |-> NoTask]
    /\ dr = [c \in Creates |-> [s \in StreamNames |-> NoDrain]]
    /\ tm = [t \in Terms |-> IdleTerm]
    /\ dl = [d \in Dels |-> IdleDel]
    /\ signalled = {}
    /\ ret = NoCall

(* ------------------------------ createJob ----------------------------- *)
\* the job object literal of createJob; color stands for the generated colour,
\* one per call
NewJob(id, c, prompt) ==
    [id |-> id, prompt |-> prompt, status |-> "pending", progress |-> <<>>,
     completeMessage |-> <<>>, startedAt |-> now, finishedAt |-> 0, color |-> c,
     process |-> 0]

\* a createJob that, when the registry is full, takes back the job of the call
\* before it
CreateJobStoreRollback(c, id, prompt) ==
    IF CreateJobThrows(Store)
    THEN /\ cr' = [cr EXCEPT ![c] = [IdleCreate EXCEPT !.pc = "done", !.id = id,
                                         !.res = "Maximum job limit reached"]]
         /\ IF c > 1 THEN CommitStore(StorageDeleteJob(Store, cr[c - 1].id))
            ELSE UNCHANGED refVars
    ELSE /\ cr' = [cr EXCEPT ![c] = [IdleCreate EXCEPT !.pc = "stored", !.id = id]]
         /\ CommitStore(StorageCreateJob(Store, NewJob(id, c, prompt)))

\* createJob from the duplicate check to the await of storage.createJob
CreateJobStore(c, id, prompt) ==
    IF CreateJobThrows(Store)
    THEN /\ cr' = [cr EXCEPT ![c] = [IdleCreate EXCEPT !.pc = "done", !.id = id,
                                         !.res = "Maximum job limit reached"]]
         /\ UNCHANGED refVars
    ELSE /\ cr' = [cr EXCEPT ![c] = [IdleCreate EXCEPT !.pc = "stored", !.id = id]]
         /\ CommitStore(StorageCreateJob(Store, NewJob(id, c, prompt)))

\* createJob(prompt, options, jobId) is called: with a caller-supplied id it reads
\* the registry and awaits; with a generated id it goes on to storage.createJob
CreateJobCall(c, id, given, prompt) ==
    /\ cr[c].pc = "idle"
    /\ c > 1 => cr[c - 1].pc # "idle"
    /\ used' = used \cup {id}
    /\ UNCHANGED <<now, ret, bg, dr, signalled>>
    /\ IF given
       THEN /\ cr' = [cr EXCEPT ![c] = [IdleCreate EXCEPT !.pc = "check", !.id = id,
                                            !.prompt = prompt,
                                            !.existing = getJob(Store, id) # 0]]
            /\ UNCHANGED refVars
       ELSE /\ id \notin used
            /\ CreateJobStore(c, id, prompt)

\* createJob without its duplicate check: the id is stored whatever was found
CreateJobCheckBlind(c) ==
    /\ cr[c].pc = "check"
    /\ UNCHANGED <<now, ret, used, bg, dr, signalled>>
    /\ CreateJobStore(c, cr[c].id, cr[c].prompt)

\* resumed after getJob: the duplicate check
CreateJobCheck(c) ==
    /\ cr[c].pc = "check"
    /\ UNCHANGED <<now, ret, used, bg, dr, signalled>>
    /\ IF cr[c].existing
       THEN /\ cr' = [cr EXCEPT ![c].pc = "done", ![c].existing = FALSE,
                                ![c].prompt = "", ![c].res = "Job ID already exists"]
            /\ UNCHANGED refVars
       ELSE CreateJobStore(c, cr[c].id, cr[c].prompt)

\* resumed after storage.createJob: storage.createOutputStream
CreateJobStream(c) ==
    /\ cr[c].pc = "stored"
    /\ cr' = [cr EXCEPT ![c].pc = "streamed"]
    /\ UNCHANGED <<now, ret, used, bg, dr, signalled>>
    /\ CommitStore(StorageCreateOutputStream(Store, cr[c].id))

\* resumed after createOutputStream: processJobInBackground(id) is called, which
\* reads the job and awaits; createJob returns { jobId, status: 'started' }
CreateJobSpawn(c) ==
    /\ cr[c].pc = "streamed"
    /\ cr' = [cr EXCEPT ![c].pc = "done", ![c].res = "started"]
    /\ bg' = [bg EXCEPT ![c] = [NoTask EXCEPT !.pc = "start", !.id = cr[c].id,
                      !.found = getJob(Store, cr[c].id) # 0,
                      !.prompt = IF getJob(Store, cr[c].id) # 0
                                 THEN heap[getJob(Store, cr[c].id)].prompt ELSE ""]]
    /\ UNCHANGED <<refVars, now, ret, used, dr, signalled>>

(* ------------------------------ createBatch --------------------------- *)
\* a createBatch whose generated ids are made of the reading of the clock alone
createBatchClockIds(c, id) ==
    /\ c > 1 => (cr[c - 1].pc = "done" /\ cr[c - 1].res = "started")
    /\ cr[c].pc = "idle"
    /\ id = IdSeq[now]
    /\ used' = used \cup {id}
    /\ UNCHANGED <<now, ret, bg, dr, signalled>>
    /\ CreateJobStore(c, id, "prompt")

\* createBatch(prompts, options), one prompt per slot of Creates: the loop calls
\* createJob(prompt, options) for prompt c, with a generated id, once the call
\* for prompt c - 1 has returned; a call that throws ends the loop and the batch
createBatch(c, id) ==
    /\ c > 1 => (cr[c - 1].pc = "done" /\ cr[c - 1].res = "started")
    /\ CreateJobCall(c, id, FALSE, "prompt")

\* createBatch has returned { jobIds, status: 'started', count }
BatchReturned == \A c \in Creates : cr[c].pc = "done" /\ cr[c].res = "started"
jobIds == [c \in Creates |-> cr[c].id]

(* ------------------------------ completeJob --------------------------- *)
\* completeJob(jobId, status, additionalMessage) up to its first await: the job
\* it read (found, progress) and its arguments; code is the exit code quoted in
\* the message, if any
CompleteJobCall(S, id, status, msg, code) ==
    [status |-> status, msg |-> msg, code |-> code, found |-> getJob(S, id) # 0,
     progress |-> IF getJob(S, id) # 0 THEN S.heap[getJob(S, id)].progress ELSE <<>>]

\* the system banner of completeJob
Banner(cj) ==
    IF cj.status = "completed"
    THEN Text("--- Process completed successfully ---", 0, 0)
    ELSE Text(cj.msg, 0, cj.code)

\* the fields completeJob writes
CompleteJobUpdate(cj) ==
    [status |-> cj.status,
     completeMessage |-> cj.progress \o (IF cj.msg # "" THEN <<Text(cj.msg, 0, cj.code)>>
                                         ELSE <<>>),
     finishedAt |-> now]

(* ------------------------ the simulated adapter ----------------------- *)
\* a prompt given to the simulated adapter is a sequence of characters
Chars(w) ==
    CASE w = "error"   -> <<"e", "r", "r", "o", "r">>
      [] w = "fail"    -> <<"f", "a", "i", "l">>
      [] w = "long"    -> <<"l", "o", "n", "g">>
      [] w = "complex" -> <<"c", "o", "m", "p", "l", "e", "x">>

LowerOf == [A |-> "a", C |-> "c", E |-> "e", F |-> "f", G |-> "g", I |-> "i", L |-> "l",
            M |-> "m", N |-> "n", O |-> "o", P |-> "p", R |-> "r", X |-> "x"]

\* String.prototype.toLowerCase, on the letters the responses are selected by
toLowerCase(p) ==
    [i \in DOMAIN p |-> IF p[i] \in DOMAIN LowerOf THEN LowerOf[p[i]] ELSE p[i]]

\* String.prototype.includes
includes(p, w) ==
    \E i \in 1..(Len(p) + 1) :
        i + Len(w) - 1 <= Len(p) /\ SubSeq(p, i, i + Len(w) - 1) = w

\* the steps of the long response: Array(10) for a maxOutputChunks of 100,
\* scaled with it so that the steps and the banner fit in a stream
LongSteps == MaxOutputChunks - 1

\* the scripted responses: the number of stdout chunks, the number of stderr
\* chunks and the exit code of each
getMockResponses ==
    [default |-> [outputChunks |-> 3, errorChunks |-> 0, exitCode |-> 0],
     error   |-> [outputChunks |-> 1, errorChunks |-> 1, exitCode |-> 1],
     long    |-> [outputChunks |-> LongSteps, errorChunks |-> 0, exitCode |-> 0]]

selectMockResponse(prompt) ==
    IF includes(toLowerCase(prompt), Chars("error"))
           \/ includes(toLowerCase(prompt), Chars("fail"))
    THEN getMockResponses.error
    ELSE IF includes(toLowerCase(prompt), Chars("long"))
                \/ includes(toLowerCase(prompt), Chars("complex"))
         THEN getMockResponses.long
         ELSE getMockResponses.default

(* ------------------------ processJobInBackground ---------------------- *)
\* the task is over: its promise settles (a rejection is only logged)
BgDone(c) ==
    bg' = [bg EXCEPT ![c] = [NoTask EXCEPT !.pc = "done", !.id = bg[c].id,
                                           !.prompt = bg[c].prompt, !.exit = bg[c].exit]]

\* an await inside the try block rejected: the task resumes in the catch block
BgThrow(c, msg) ==
    bg' = [bg EXCEPT ![c] = [NoTask EXCEPT !.pc = "thrown", !.id = bg[c].id, !.err = msg,
                                           !.prompt = bg[c].prompt, !.exit = bg[c].exit]]

\* resumed after getJob: status 'running' is written
BgStart(c) ==
    /\ bg[c].pc = "start"
    /\ UNCHANGED <<now, ret, used, cr, dr, signalled>>
    /\ IF ~bg[c].found
       THEN /\ BgDone(c)
            /\ UNCHANGED refVars
       ELSE IF HasJob(Store, bg[c].id)
       THEN /\ bg' = [bg EXCEPT ![c].pc = "spawn", ![c].found = FALSE]
            /\ CommitStore(StorageUpdateJob(Store, bg[c].id, [status |-> "running"]))
       ELSE /\ BgThrow(c, "Job not found")
            /\ UNCHANGED refVars

\* claudeService.startProcess resolves and the handle is stored (the handle of
\* task c is c), processOutputStreams starts both drains; or startProcess rejects
BgSpawn(c, ok) ==
    /\ bg[c].pc = "spawn"
    /\ UNCHANGED <<now, ret, used, cr, signalled>>
    /\ IF ok /\ HasJob(Store, bg[c].id)
       THEN /\ bg' = [bg EXCEPT ![c].pc = "streams"]
            /\ dr' = [dr EXCEPT ![c] = [s \in StreamNames |-> [NoDrain EXCEPT !.pc = "read"]]]
            /\ CommitStore(StorageUpdateJob(Store, bg[c].id,
                                            [process |-> c, status |-> "running"]))
       ELSE /\ BgThrow(c, IF ok THEN "Job not found" ELSE "Failed to start process")
            /\ UNCHANGED <<refVars, dr>>

\* storeAndLogOutput(text, type) up to the await of addOutputChunk; n chunks of
\* the stream have been read, last says that the drain ends after this one
StoreOutput(c, s, text, type, last, n) ==
    /\ dr' = [dr EXCEPT ![c][s] = [NoDrain EXCEPT !.pc = "added", !.text = text, !.n = n,
                                                  !.last = last]]
    /\ CommitStore(StorageAddOutputChunk(Store, bg[c].id,
                                         formatOutputChunk(text, type, bg[c].id)))

MaxChunks(s) == IF s = "stdout" THEN MaxOut ELSE MaxErr

\* the stream yields its next chunk (one line of extracted text)
DrainChunk(c, s) ==
    /\ dr[c][s].pc = "read"
    /\ dr[c][s].n < MaxChunks(s)
    /\ UNCHANGED <<now, ret, used, cr, bg, signalled>>
    /\ StoreOutput(c, s, Text(s, c, dr[c][s].n + 1), s, FALSE, dr[c][s].n + 1)

\* a stream failure that rejects processOutputStreams: the task goes to its
\* catch block
DrainRaiseFatal(c, s) ==
    /\ dr[c][s].pc = "read"
    /\ BgThrow(c, "stream error")
    /\ dr' = [dr EXCEPT ![c][s] = [NoDrain EXCEPT !.pc = "end", !.n = dr[c][s].n,
                                                  !.last = TRUE]]
    /\ UNCHANGED <<refVars, now, ret, used, cr, signalled>>

\* iterating the stream raises: an 'error' chunk is stored and the drain ends
DrainRaise(c, s) ==
    /\ dr[c][s].pc = "read"
    /\ UNCHANGED <<now, ret, used, cr, bg, signalled>>
    /\ StoreOutput(c, s, Text("stream error", c, 0), "error", TRUE, dr[c][s].n)

\* storeAndLogOutput resumed after addOutputChunk: getJob
DrainGet(c, s) ==
    /\ dr[c][s].pc = "added"
    /\ dr' = [dr EXCEPT ![c][s].pc = "got",
                        ![c][s].found = getJob(Store, bg[c].id) # 0,
                        ![c][s].progress =
                            IF getJob(Store, bg[c].id) # 0
                            THEN heap[getJob(Store, bg[c].id)].progress ELSE <<>>]
    /\ UNCHANGED <<refVars, now, ret, used, cr, bg, signalled>>

\* storeAndLogOutput resumed after getJob: progress is written (a 'not found'
\* of updateJob is swallowed) and the drain goes on to the next chunk
DrainProgress(c, s) ==
    /\ dr[c][s].pc = "got"
    /\ dr' = [dr EXCEPT ![c][s] = IF dr[c][s].last
                                  THEN [NoDrain EXCEPT !.pc = "end", !.last = TRUE,
                                                       !.n = dr[c][s].n]
                                  ELSE [NoDrain EXCEPT !.pc = "read", !.n = dr[c][s].n]]
    /\ UNCHANGED <<now, ret, used, cr, bg, signalled>>
    /\ IF dr[c][s].found /\ HasJob(Store, bg[c].id)
       THEN CommitStore(StorageUpdateJob(Store, bg[c].id,
                            [progress |-> Append(dr[c][s].progress, dr[c][s].text)]))
       ELSE UNCHANGED refVars

\* the streams that are still open end, processOutputStreams resolves, and the
\* process exits with `code`: getJob (nothing of the registry is touched between
\* the end of a stream and this read)
BgExited(c, code) ==
    /\ bg[c].pc = "streams"
    /\ \A s \in StreamNames : dr[c][s].pc \in {"read", "end"}
    /\ dr' = [dr EXCEPT ![c] = [s \in StreamNames |->
                                   [NoDrain EXCEPT !.pc = "end", !.n = dr[c][s].n,
                                                   !.last = dr[c][s].last]]]
    /\ bg' = [bg EXCEPT ![c].pc = "exited", ![c].exit = code,
                        ![c].found = getJob(Store, bg[c].id) # 0]
    /\ UNCHANGED <<refVars, now, ret, used, cr, signalled>>

\* resumed after getJob: the process reference is cleared, unless the job is gone
BgClear(c) ==
    /\ bg[c].pc = "exited"
    /\ UNCHANGED <<now, ret, used, cr, dr, signalled>>
    /\ IF ~bg[c].found
       THEN /\ BgDone(c)
            /\ UNCHANGED refVars
       ELSE IF HasJob(Store, bg[c].id)
       THEN /\ bg' = [bg EXCEPT ![c].pc = "cleared", ![c].found = FALSE]
            /\ CommitStore(StorageUpdateJob(Store, bg[c].id, [process |-> 0]))
       ELSE /\ BgThrow(c, "Job not found")
            /\ UNCHANGED refVars

\* a task that reports success whatever the exit code
BgCompleteAnyCode(c) ==
    /\ bg[c].pc = "cleared"
    /\ bg' = [bg EXCEPT ![c].pc = "cj_got",
                        ![c].cj = CompleteJobCall(Store, bg[c].id, "completed", "", 0)]
    /\ UNCHANGED <<refVars, now, ret, used, cr, dr, signalled>>

\* resumed after updateJob: completeJob is called by exit code
BgComplete(c) ==
    /\ bg[c].pc = "cleared"
    /\ bg' = [bg EXCEPT ![c].pc = "cj_got",
                        ![c].cj = IF bg[c].exit = 0
                                  THEN CompleteJobCall(Store, bg[c].id, "completed", "", 0)
                                  ELSE CompleteJobCall(Store, bg[c].id, "failed",
                                           "Process exited with code", bg[c].exit)]
    /\ UNCHANGED <<refVars, now, ret, used, cr, dr, signalled>>

\* the catch block: getJob
BgCatch(c) ==
    /\ bg[c].pc = "thrown"
    /\ bg' = [bg EXCEPT ![c].pc = "caught", ![c].rethrow = TRUE,
                        ![c].found = getJob(Store, bg[c].id) # 0]
    /\ UNCHANGED <<refVars, now, ret, used, cr, dr, signalled>>

\* a catch block that drops the exception without finalizing the job
BgCatchCompleteSilent(c) ==
    /\ bg[c].pc = "caught"
    /\ BgDone(c)
    /\ UNCHANGED <<refVars, now, ret, used, cr, dr, signalled>>

\* the catch block resumed after getJob: completeJob(jobId, 'failed', message)
BgCatchComplete(c) ==
    /\ bg[c].pc = "caught"
    /\ IF bg[c].found
       THEN bg' = [bg EXCEPT ![c].pc = "cj_got", ![c].found = FALSE, ![c].err = "",
                             ![c].cj = CompleteJobCall(Store, bg[c].id, "failed",
                                                       bg[c].err, 0)]
       ELSE BgDone(c)
    /\ UNCHANGED <<refVars, now, ret, used, cr, dr, signalled>>

\* completeJob resumed after getJob: the banner chunk is added, unless the job is gone
BgBanner(c) ==
    /\ bg[c].pc = "cj_got"
    /\ UNCHANGED <<now, ret, used, cr, dr, signalled>>
    /\ IF bg[c].cj.found
       THEN /\ bg' = [bg EXCEPT ![c].pc = "cj_added"]
            /\ CommitStore(StorageAddOutputChunk(Store, bg[c].id,
                               formatOutputChunk(Banner(bg[c].cj), "system", bg[c].id)))
       ELSE /\ BgDone(c)
            /\ UNCHANGED refVars

\* completeJob resumed after addOutputChunk: status, completeMessage and
\* finishedAt are written; a 'not found' ends in the catch block, or ends the
\* task when it is thrown from there
BgFinish(c) ==
    /\ bg[c].pc = "cj_added"
    /\ UNCHANGED <<now, ret, used, cr, dr, signalled>>
    /\ IF HasJob(Store, bg[c].id)
       THEN /\ BgDone(c)
            /\ CommitStore(StorageUpdateJob(Store, bg[c].id, CompleteJobUpdate(bg[c].cj)))
       ELSE /\ IF bg[c].rethrow THEN BgDone(c) ELSE BgThrow(c, "Job not found")
            /\ UNCHANGED refVars

(* ------------------- the process of the simulated adapter ------------- *)
\* the number of chunks the script of task c's prompt has for stream s
Scripted_n(c, s) ==
    IF s = "stdout" THEN selectMockResponse(bg[c].prompt).outputChunks
    ELSE selectMockResponse(bg[c].prompt).errorChunks

\* a mock stream that yields the chunks of its script last to first
MockChunkReversed(c, s) ==
    /\ dr[c][s].pc = "read"
    /\ dr[c][s].n < Scripted_n(c, s)
    /\ UNCHANGED <<now, ret, used, cr, bg, signalled>>
    /\ StoreOutput(c, s, Text(s, c, Scripted_n(c, s) - dr[c][s].n), s, FALSE,
                   dr[c][s].n + 1)

\* the mock stream s yields its next chunk after its delay: chunk n + 1 of the
\* script, which is one line of text
MockChunk(c, s) ==
    /\ dr[c][s].pc = "read"
    /\ dr[c][s].n < Scripted_n(c, s)
    /\ UNCHANGED <<now, ret, used, cr, bg, signalled>>
    /\ StoreOutput(c, s, Text(s, c, dr[c][s].n + 1), s, FALSE, dr[c][s].n + 1)

\* both mock streams have yielded all their chunks and end, and `exited`
\* resolves with response.exitCode || 0
MockExited(c) ==
    /\ \A s \in StreamNames : dr[c][s].pc = "read" /\ dr[c][s].n = Scripted_n(c, s)
    /\ BgExited(c, selectMockResponse(bg[c].prompt).exitCode)

(* ------------------------------ terminateJob -------------------------- *)
\* job.status = st through the held reference r
SetStatus(S, r, st) == [S EXCEPT !.heap[r].status = st]

\* storage.updateJob(jobId, job) with the held object as the updates
WriteBack(S, id, r) == StorageUpdateJob(S, id, S.heap[r])

\* the call is over with result res
TermDone(t, res) ==
    [tm EXCEPT ![t] = [tm[t] EXCEPT !.pc = "done", !.job = 0, !.cj = NoCompletion,
                                    !.res = res]]

\* the terminateJob calls in flight
InFlight == {u \in Terms : tm[u].pc \notin {"idle", "done"}}

\* terminateJob(id) is called: getJob, await
TerminateJobCall(t, id) ==
    /\ tm[t].pc = "idle"
    /\ t > 1 => tm[t - 1].pc # "idle"
    /\ Commit(Store,
              [tm EXCEPT ![t] =
                  IF getJob(Store, id) = 0
                  THEN [IdleTerm EXCEPT !.pc = "read", !.id = id, !.seen = "absent",
                                        !.during = InFlight]
                  ELSE [IdleTerm EXCEPT !.pc = "read", !.id = id,
                            !.job = getJob(Store, id),
                            !.inst = heap[getJob(Store, id)].color,
                            !.seen = heap[getJob(Store, id)].status,
                            !.live = heap[getJob(Store, id)].process # 0,
                            !.during = InFlight]],
              dl)
    /\ UNCHANGED <<now, ret, used, cr, bg, dr, signalled>>

\* terminateJob without its status check: any stored job is marked
TerminateJobCheckAnyStatus(t) ==
    /\ tm[t].pc = "read"
    /\ UNCHANGED <<now, ret, used, cr, bg, dr, signalled>>
    /\ IF tm[t].job = 0
       THEN Commit(Store, TermDone(t, "Job not found"), dl)
       ELSE IF HasJob(Store, tm[t].id)
       THEN Commit(WriteBack(SetStatus(Store, tm[t].job, "terminating"),
                             tm[t].id, tm[t].job),
                   [tm EXCEPT ![t].pc = "marked"], dl)
       ELSE Commit(SetStatus(Store, tm[t].job, "terminating"),
                   TermDone(t, "Job not found (updateJob)"), dl)

\* resumed after getJob: the checks, then status 'terminating' is set on the
\* held object and the object is written back
TerminateJobCheck(t) ==
    /\ tm[t].pc = "read"
    /\ UNCHANGED <<now, ret, used, cr, bg, dr, signalled>>
    /\ IF tm[t].job = 0
       THEN Commit(Store, TermDone(t, "Job not found"), dl)
       ELSE IF heap[tm[t].job].status # "running"
       THEN Commit(Store, TermDone(t, "Job is not running"), dl)
       ELSE IF HasJob(Store, tm[t].id)
       THEN Commit(WriteBack(SetStatus(Store, tm[t].job, "terminating"),
                             tm[t].id, tm[t].job),
                   [tm EXCEPT ![t].pc = "marked"], dl)
       ELSE Commit(SetStatus(Store, tm[t].job, "terminating"),
                   TermDone(t, "Job not found (updateJob)"), dl)

\* the error path without the revert: the held object is written back as it is
RevertKeeps(t, error) ==
    IF HasJob(Store, tm[t].id)
    THEN Commit(WriteBack(Store, tm[t].id, tm[t].job),
                [tm EXCEPT ![t].pc = "reverted", ![t].res = error, ![t].cj = NoCompletion],
                dl)
    ELSE Commit(Store, TermDone(t, "Job not found (updateJob)"), dl)

\* job.status = 'running' on the held object, written back; the pending error
\* is thrown after the await, unless updateJob itself throws
Revert(t, error) ==
    IF HasJob(Store, tm[t].id)
    THEN Commit(WriteBack(SetStatus(Store, tm[t].job, "running"), tm[t].id, tm[t].job),
                [tm EXCEPT ![t].pc = "reverted", ![t].res = error, ![t].cj = NoCompletion],
                dl)
    ELSE Commit(SetStatus(Store, tm[t].job, "running"),
                TermDone(t, "Job not found (updateJob)"), dl)

\* resumed after updateJob: the process is signalled and completeJob is called;
\* kill may throw, and a job without a handle is an error: both revert
TerminateJobSignal(t, killThrows) ==
    /\ tm[t].pc = "marked"
    /\ UNCHANGED <<now, ret, used, cr, bg, dr>>
    /\ IF heap[tm[t].job].process = 0
       THEN /\ ~killThrows
            /\ Revert(t, "No active process to terminate")
            /\ UNCHANGED signalled
       ELSE IF killThrows
       THEN /\ Revert(t, "Failed to terminate process")
            /\ UNCHANGED signalled
       ELSE /\ signalled' = signalled \cup {heap[tm[t].job].process}
            /\ Commit(Store,
                      [tm EXCEPT ![t].pc = "cj_got",
                                 ![t].cj = CompleteJobCall(Store, tm[t].id, "terminated",
                                               "Process terminated by user", 0)],
                      dl)

\* completeJob resumed after getJob: the banner chunk is added; with the job
\* gone completeJob returns
TerminateJobBanner(t) ==
    /\ tm[t].pc = "cj_got"
    /\ UNCHANGED <<now, ret, used, cr, bg, dr, signalled>>
    /\ IF tm[t].cj.found
       THEN Commit(StorageAddOutputChunk(Store, tm[t].id,
                       formatOutputChunk(Banner(tm[t].cj), "system", tm[t].id)),
                   [tm EXCEPT ![t].pc = "cj_added"], dl)
       ELSE Commit(Store, [tm EXCEPT ![t].pc = "completed", ![t].cj = NoCompletion], dl)

\* completeJob resumed after addOutputChunk: status 'terminated' is written; a
\* 'not found' of updateJob rejects completeJob
TerminateJobFinish(t) ==
    /\ tm[t].pc = "cj_added"
    /\ UNCHANGED <<now, ret, used, cr, bg, dr, signalled>>
    /\ IF HasJob(Store, tm[t].id)
       THEN Commit(StorageUpdateJob(Store, tm[t].id, CompleteJobUpdate(tm[t].cj)),
                   [tm EXCEPT ![t].pc = "completed", ![t].cj = NoCompletion], dl)
       ELSE Commit(Store, [tm EXCEPT ![t].pc = "cj_threw", ![t].cj = NoCompletion], dl)

\* terminateJob resumed with completeJob rejected: the catch block reverts
TerminateJobCatch(t) ==
    /\ tm[t].pc = "cj_threw"
    /\ UNCHANGED <<now, ret, used, cr, bg, dr, signalled>>
    /\ Revert(t, "Failed to terminate process")

\* terminateJob returns { success: true, status: 'terminated' }, or throws the
\* pending error after the revert
TerminateJobReturn(t) ==
    /\ tm[t].pc \in {"completed", "reverted"}
    /\ Commit(Store,
              TermDone(t, IF tm[t].pc = "completed" THEN "success" ELSE tm[t].res), dl)
    /\ UNCHANGED <<now, ret, used, cr, bg, dr, signalled>>

(* ------------------------------ deleteJob ----------------------------- *)
DelDone(d, res) ==
    [dl EXCEPT ![d] = [dl[d] EXCEPT !.pc = "done", !.job = 0, !.res = res]]

\* deleteJob(id) is called: getJob, await
DeleteJobCall(d, id) ==
    /\ dl[d].pc = "idle"
    /\ d > 1 => dl[d - 1].pc # "idle"
    /\ Commit(Store, tm,
              [dl EXCEPT ![d] = [IdleDel EXCEPT !.pc = "read", !.id = id,
                                    !.job = getJob(Store, id),
                                    !.seen = IF getJob(Store, id) = 0 THEN "absent"
                                             ELSE heap[getJob(Store, id)].status]])
    /\ UNCHANGED <<now, ret, used, cr, bg, dr, signalled>>

\* resumed after getJob: absent is success, running is refused, anything else
\* is removed together with its stream
DeleteJobCheck(d) ==
    /\ dl[d].pc = "read"
    /\ UNCHANGED <<now, ret, used, cr, bg, dr, signalled>>
    /\ IF dl[d].job = 0
       THEN Commit(Store, tm, DelDone(d, "success"))
       ELSE IF heap[dl[d].job].status = "running"
       THEN Commit(Store, tm, DelDone(d, "Cannot delete running job"))
       ELSE Commit(StorageDeleteJob(Store, dl[d].id), tm, DelDone(d, "success"))

(* ------------------------ calls on the storage ------------------------ *)
\* The methods of the storage called directly, as the endpoints and the tests
\* do. Each runs to its end without an await. ret keeps the last call whose
\* result is looked at (n tells two equal calls in a row apart).
\* A getJobStream call that awaits its getJob stays in ret until it has returned.
Awaiting == ret.op = "getJobStream" /\ ret.val.pc = "await"

\* the client's output panel is open: ret holds what it has shown so far
Polling == ret.op = "loadJobOutput"

Called(op, arg, val) ==
    IF Awaiting \/ Polling THEN ret
    ELSE [op |-> op, arg |-> arg, val |-> val, n |-> 1 - ret.n]

\* ret after a call whose result is not looked at
Returned == IF Awaiting \/ Polling THEN ret ELSE NoCall

\* Date.now() has advanced
Tick ==
    /\ now < MaxNow
    /\ now' = now + 1
    /\ UNCHANGED <<refVars, used, cr, bg, dr, signalled, ret>>

\* storage.createJob(job) with a pending job started now
StorageCreateJobCall(id) ==
    /\ UNCHANGED <<now, used, cr, bg, dr, signalled>>
    /\ IF CreateJobThrows(Store)
       THEN /\ ret' = Called("createJob", id, "Maximum job limit reached")
            /\ UNCHANGED refVars
       ELSE /\ ret' = Called("createJob", id, "created")
            /\ CommitStore(StorageCreateJob(Store, NewJob(id, 0, "prompt")))

\* storage.updateJob(id, { status }) or, for a status that ends the job,
\* storage.updateJob(id, { status, finishedAt: Date.now() })
StorageUpdateJobCall(id, status) ==
    /\ HasJob(Store, id)
    /\ heap[jobs[id]].status # status
    /\ ret' = Returned
    /\ UNCHANGED <<now, used, cr, bg, dr, signalled>>
    /\ CommitStore(StorageUpdateJob(Store, id,
           IF status \in {"completed", "failed", "terminated"}
           THEN [status |-> status, finishedAt |-> now]
           ELSE [status |-> status]))

\* storage.createOutputStream(id) for a stored job
StorageCreateOutputStreamCall(id) ==
    /\ HasJob(Store, id)
    /\ ~streams[id].present
    /\ ret' = Returned
    /\ UNCHANGED <<now, used, cr, bg, dr, signalled>>
    /\ CommitStore(StorageCreateOutputStream(Store, id))

\* storage.cleanup(olderThan)
StorageCleanupCall(olderThan) ==
    /\ ret' = Called("cleanup", olderThan, StorageCleanup(Store, olderThan).cleaned)
    /\ UNCHANGED <<now, used, cr, bg, dr, signalled>>
    /\ CommitStore(StorageCleanup(Store, olderThan).store)

\* storage.listJobs(filter)
StorageListJobsCall(filter) ==
    /\ ret' = Called("listJobs", filter, StorageListJobs(Store, filter))
    /\ UNCHANGED <<refVars, now, used, cr, bg, dr, signalled>>

\* storage.deleteJob(id)
StorageDeleteJobCall(id) ==
    /\ ~(~HasJob(Store, id) /\ ~streams[id].present)
    /\ ret' = Returned
    /\ UNCHANGED <<now, used, cr, bg, dr, signalled>>
    /\ CommitStore(StorageDeleteJob(Store, id))

\* storage.addOutputChunk(id, formatOutputChunk(text, 'stdout', id)); the text
\* is numbered by the place the chunk takes in the stream
StorageAddOutputChunkCall(id) ==
    /\ ret' = Returned
    /\ UNCHANGED <<now, used, cr, bg, dr, signalled>>
    /\ CommitStore(StorageAddOutputChunk(Store, id,
           formatOutputChunk(Text("stdout", 0, Len(streams[id].chunks) + 1), "stdout", id)))

\* storage.getOutputStream(id, since)
StorageGetOutputStreamCall(id, since) ==
    /\ ~Awaiting
    /\ ret' = Called("getOutputStream", <<id, since>>,
                     StorageGetOutputStream(Store, id, since))
    /\ UNCHANGED <<refVars, now, used, cr, bg, dr, signalled>>

\* getJobStream(jobId, since) is called: getJob. The object it holds is
\* read again only for status and color, which no call on the storage
\* changes in place, so the two are kept by value.
GetJobStreamCall(id, since) ==
    /\ ~Awaiting
    /\ ret' = Called("getJobStream", <<id, since>>,
                     [pc |-> "await", found |-> getJob(Store, id) # 0,
                      status |-> IF getJob(Store, id) # 0
                                 THEN heap[getJob(Store, id)].status ELSE "",
                      startedAt |-> IF getJob(Store, id) # 0
                                    THEN heap[getJob(Store, id)].startedAt ELSE 0])
    /\ UNCHANGED <<refVars, now, used, cr, bg, dr, signalled>>

\* getJobStream resumed after getJob: null for no job, else getOutputStream and
\* the result (chunks [] and lastUpdate startedAt when there is no stream)
GetJobStreamRead ==
    /\ Awaiting
    /\ ret' = [ret EXCEPT !.val =
                  IF ~ret.val.found
                  THEN [pc |-> "done", null |-> TRUE, chunks |-> <<>>, status |-> "",
                        lastUpdate |-> 0]
                  ELSE [pc |-> "done", null |-> FALSE,
                        chunks |-> StorageGetOutputStream(Store, ret.arg[1],
                                                          ret.arg[2]).chunks,
                        status |-> ret.val.status,
                        lastUpdate |->
                            IF StorageGetOutputStream(Store, ret.arg[1], ret.arg[2]).null
                            THEN ret.val.startedAt
                            ELSE StorageGetOutputStream(Store, ret.arg[1],
                                                        ret.arg[2]).lastUpdate]]
    /\ UNCHANGED <<refVars, now, used, cr, bg, dr, signalled>>

\* the client's loadJobOutput(jobId) requests the stream since
\* lastOutputTimestamp (0 when the panel has just been opened): getJobStream
\* reads the job
LoadJobOutputCall(id) ==
    /\ ret = NoCall \/ (Polling /\ ret.val.pc = "idle" /\ ret.arg = id)
    /\ ret' = [op |-> "loadJobOutput", arg |-> id, n |-> 0,
               val |-> [pc |-> "await", found |-> getJob(Store, id) # 0,
                        lastOutputTimestamp |->
                            IF Polling THEN ret.val.lastOutputTimestamp ELSE 0,
                        shown |-> IF Polling THEN ret.val.shown ELSE <<>>]]
    /\ UNCHANGED <<refVars, now, used, cr, bg, dr, signalled>>

\* getJobStream resumed after getJob: getOutputStream, and the client appends
\* the chunks of the response to the panel and, when there are any, takes
\* lastUpdate for its next request; a response that is not ok changes nothing
LoadJobOutputRead ==
    /\ Polling /\ ret.val.pc = "await"
    /\ \E g \in {StorageGetOutputStream(Store, ret.arg, ret.val.lastOutputTimestamp)} :
           ret' = [ret EXCEPT
                      !.val.pc = "idle",
                      !.val.found = FALSE,
                      !.val.shown = IF ret.val.found THEN @ \o g.chunks ELSE @,
                      !.val.lastOutputTimestamp =
                          IF ret.val.found /\ g.chunks # <<>> THEN g.lastUpdate ELSE @]
    /\ UNCHANGED <<refVars, now, used, cr, bg, dr, signalled>>

(* ------------------------------ bulk endpoints ----------------------- *)
\* The handlers of POST /batch/:jobIds/terminate and DELETE /batch/:jobIds.
\* One request at a time is in ret: op names the handler, arg holds the job
\* ids and the query options, val the handler's locals. The handlers call
\* terminateJob and deleteJob in the first slot of tm and of dl.

\* what jobService.getJob(id) shows of the job: its status, or that it is absent
Seen(id) == IF jobs[id] = 0 THEN "absent" ELSE heap[jobs[id]].status

\* one entry of `results`; at is terminatedAt or deletedAt, 0 for null
BatchResult(jobId, success, error, status, at) ==
    [jobId |-> jobId, success |-> success, error |-> error, status |-> status, at |-> at]

\* results.filter(r => r.success).length and results.filter(r => !r.success).length
Successes(results) == Len(SelectSeq(results, LAMBDA r : r.success))
Failures(results) == Len(SelectSeq(results, LAMBDA r : ~r.success))

\* a request has been received and has not been answered
Handling(op) == ret.op = op /\ ret.val.pc # "done"

\* the locals of a handler that has just parsed its request
BatchLocals == [pc |-> "loop", k |-> 1, results |-> <<>>, seen |-> "", startTime |-> now,
                summary |-> <<>>]

\* the summary of the terminate handler, and its response
TerminateSummary(val, ids) ==
    [val EXCEPT !.pc = "done", !.k = 0, !.seen = "",
        !.summary = [total |-> Len(ids),
                     processed |-> Len(val.results),
                     terminated |-> Successes(SelectSeq(val.results,
                                        LAMBDA r : r.status = "terminated")),
                     failed |-> Failures(val.results),
                     alreadyStopped |-> Successes(SelectSeq(val.results,
                                        LAMBDA r : r.status # "terminated"))]]

\* the verification loop of the terminate handler from entry j on: it stops at
\* the next entry that reports a termination, to wait and to read the job
TerminateVerifyFrom(val, ids, j) ==
    IF \E i \in j..Len(val.results) :
           val.results[i].success /\ val.results[i].status = "terminated"
    THEN [val EXCEPT !.pc = "verify", !.seen = "",
              !.k = CHOOSE i \in j..Len(val.results) :
                        /\ val.results[i].success /\ val.results[i].status = "terminated"
                        /\ \A h \in j..(i - 1) :
                               ~(val.results[h].success
                                     /\ val.results[h].status = "terminated")]
    ELSE TerminateSummary(val, ids)

\* the terminate handler after its loop
TerminateAfterLoop(val, arg) ==
    IF arg.wait THEN TerminateVerifyFrom(val, arg.jobIds, 1)
    ELSE TerminateSummary(val, arg.jobIds)

\* the terminate handler at the top of its loop for id number k: in force mode
\* it reads the job, otherwise it calls terminateJob
TerminateIterate(val, arg, k) ==
    IF k > Len(arg.jobIds) THEN TerminateAfterLoop(val, arg)
    ELSE IF arg.force
    THEN [val EXCEPT !.pc = "got", !.k = k, !.seen = Seen(arg.jobIds[k])]
    ELSE [val EXCEPT !.pc = "call", !.k = k, !.seen = ""]

\* the terminate handler that leaves its loop at the first id that fails
TerminatePushAbort(val, arg, result) ==
    IF ~result.success
    THEN TerminateAfterLoop([val EXCEPT !.results = Append(@, result)], arg)
    ELSE TerminateIterate([val EXCEPT !.results = Append(@, result)], arg, val.k + 1)

\* results.push(result), then the check of the timeout in wait mode, which
\* leaves the loop
TerminatePush(val, arg, result) ==
    IF arg.wait /\ now - val.startTime > TimeoutMs
    THEN TerminateAfterLoop([val EXCEPT !.results = Append(@, result)], arg)
    ELSE TerminateIterate([val EXCEPT !.results = Append(@, result)], arg, val.k + 1)

\* POST /batch/:jobIds/terminate is received
TerminateBatchCall(ids, force, wait) ==
    /\ ret = NoCall
    /\ \E arg \in {[jobIds |-> ids, force |-> force, wait |-> wait]} :
           ret' = [op |-> "terminateBatch", arg |-> arg, n |-> 0,
                   val |-> TerminateIterate(BatchLocals, arg, 1)]
    /\ UNCHANGED <<refVars, now, used, cr, bg, dr, signalled>>

\* force mode, resumed after getJob: an absent job is an error, a running one
\* is terminated, any other one is reported as already stopped
TerminateBatchGot ==
    /\ Handling("terminateBatch")
    /\ ret.val.pc = "got"
    /\ \E id \in {ret.arg.jobIds[ret.val.k]} :
           ret' = [ret EXCEPT !.val =
                      IF ret.val.seen = "absent"
                      THEN TerminatePush(ret.val, ret.arg,
                               BatchResult(id, FALSE, "Job not found", "", 0))
                      ELSE IF ret.val.seen = "running"
                      THEN [ret.val EXCEPT !.pc = "call"]
                      ELSE TerminatePush(ret.val, ret.arg,
                               BatchResult(id, TRUE, "Job was already " \o ret.val.seen,
                                           ret.val.seen, 0))]
    /\ UNCHANGED <<refVars, now, used, cr, bg, dr, signalled>>

\* the handler calls jobService.terminateJob for the id it is at
TerminateBatchTerminate(t) ==
    /\ Handling("terminateBatch")
    /\ ret.val.pc = "call"
    /\ TerminateJobCall(t, ret.arg.jobIds[ret.val.k])

\* resumed after terminateJob: its result, or the error it threw, is the entry
TerminateBatchCollect(t) ==
    /\ Handling("terminateBatch")
    /\ ret.val.pc = "call"
    /\ tm[t].pc = "done"
    /\ \E id \in {ret.arg.jobIds[ret.val.k]} :
           ret' = [ret EXCEPT !.val =
                      TerminatePush(ret.val, ret.arg,
                          IF tm[t].res = "success"
                          THEN BatchResult(id, TRUE, "", "terminated", now)
                          ELSE BatchResult(id, FALSE, tm[t].res, "", 0))]
    /\ Commit(Store, [tm EXCEPT ![t] = IdleTerm], dl)
    /\ UNCHANGED <<now, used, cr, bg, dr, signalled>>

\* wait mode, after the grace period: the job of entry k is read again, and an
\* entry whose job is there and not terminated becomes a failure
TerminateBatchVerify ==
    /\ Handling("terminateBatch")
    /\ ret.val.pc = "verify"
    /\ \E k \in {ret.val.k} : \E st \in {Seen(ret.val.results[k].jobId)} :
           ret' = [ret EXCEPT !.val =
                      TerminateVerifyFrom(
                          IF st \notin {"absent", "terminated"}
                          THEN [ret.val EXCEPT !.results[k].success = FALSE,
                                               !.results[k].error =
                                   "Termination initiated but job still " \o st]
                          ELSE ret.val,
                          ret.arg.jobIds, k + 1)]
    /\ UNCHANGED <<refVars, now, used, cr, bg, dr, signalled>>

\* the summary of the delete handler, and its response
DeleteSummary(val, ids) ==
    [val EXCEPT !.pc = "done", !.k = 0, !.seen = "",
        !.summary = [total |-> Len(ids),
                     deleted |-> Successes(val.results),
                     failed |-> Failures(val.results)]]

\* the verification loop of the delete handler from entry j on: it stops at
\* the next entry that reports success, to read the job
DeleteVerifyFrom(val, ids, j) ==
    IF \E i \in j..Len(val.results) : val.results[i].success
    THEN [val EXCEPT !.pc = "verify", !.seen = "",
              !.k = CHOOSE i \in j..Len(val.results) :
                        /\ val.results[i].success
                        /\ \A h \in j..(i - 1) : ~val.results[h].success]
    ELSE DeleteSummary(val, ids)

\* the delete handler at the top of its loop for id number k: it reads the job
DeleteIterate(val, arg, k) ==
    IF k > Len(arg.jobIds) THEN DeleteVerifyFrom(val, arg.jobIds, 1)
    ELSE [val EXCEPT !.pc = "got", !.k = k, !.seen = Seen(arg.jobIds[k])]

\* DELETE /batch/:jobIds is received
DeleteBatchCall(ids, force) ==
    /\ ret = NoCall
    /\ \E arg \in {[jobIds |-> ids, force |-> force]} :
           ret' = [op |-> "deleteBatch", arg |-> arg, n |-> 0,
                   val |-> DeleteIterate(BatchLocals, arg, 1)]
    /\ UNCHANGED <<refVars, now, used, cr, bg, dr, signalled>>

\* resumed after getJob: an absent job is an error; in force mode a running
\* job is terminated first; any other job is deleted
DeleteBatchGot ==
    /\ Handling("deleteBatch")
    /\ ret.val.pc = "got"
    /\ \E id \in {ret.arg.jobIds[ret.val.k]} :
           ret' = [ret EXCEPT !.val =
                      IF ret.val.seen = "absent"
                      THEN DeleteIterate(
                               [ret.val EXCEPT !.results =
                                   Append(@, BatchResult(id, FALSE, "Job not found", "", 0))],
                               ret.arg, ret.val.k + 1)
                      ELSE IF ret.arg.force /\ ret.val.seen = "running"
                      THEN [ret.val EXCEPT !.pc = "terminate"]
                      ELSE [ret.val EXCEPT !.pc = "delete"]]
    /\ UNCHANGED <<refVars, now, used, cr, bg, dr, signalled>>

\* force mode: the handler calls jobService.terminateJob for the running job
DeleteBatchTerminate(t) ==
    /\ Handling("deleteBatch")
    /\ ret.val.pc = "terminate"
    /\ TerminateJobCall(t, ret.arg.jobIds[ret.val.k])

\* resumed after terminateJob, which returned or threw: the handler goes on to
\* the deletion, after the grace period when terminateJob returned
DeleteBatchTerminated(t) ==
    /\ Handling("deleteBatch")
    /\ ret.val.pc = "terminate"
    /\ tm[t].pc = "done"
    /\ ret' = [ret EXCEPT !.val.pc = "delete"]
    /\ Commit(Store, [tm EXCEPT ![t] = IdleTerm], dl)
    /\ UNCHANGED <<now, used, cr, bg, dr, signalled>>

\* the handler calls jobService.deleteJob for the id it is at
DeleteBatchDelete(d) ==
    /\ Handling("deleteBatch")
    /\ ret.val.pc = "delete"
    /\ DeleteJobCall(d, ret.arg.jobIds[ret.val.k])

\* resumed after deleteJob: success, or the error it threw, is the entry
DeleteBatchCollect(d) ==
    /\ Handling("deleteBatch")
    /\ ret.val.pc = "delete"
    /\ dl[d].pc = "done"
    /\ \E id \in {ret.arg.jobIds[ret.val.k]} :
           ret' = [ret EXCEPT !.val =
                      DeleteIterate(
                          [ret.val EXCEPT !.results =
                              Append(@, IF dl[d].res = "success"
                                        THEN BatchResult(id, TRUE, "", ret.val.seen, now)
                                        ELSE BatchResult(id, FALSE, dl[d].res,
                                                         ret.val.seen, 0))],
                          ret.arg, ret.val.k + 1)]
    /\ Commit(Store, tm, [dl EXCEPT ![d] = IdleDel])
    /\ UNCHANGED <<now, used, cr, bg, dr, signalled>>

\* the verification: the job of entry k is read again, and an entry whose job
\* is still there becomes a failure
DeleteBatchVerify ==
    /\ Handling("deleteBatch")
    /\ ret.val.pc = "verify"
    /\ \E k \in {ret.val.k} : \E st \in {Seen(ret.val.results[k].jobId)} :
           ret' = [ret EXCEPT !.val =
                      DeleteVerifyFrom(
                          IF st # "absent"
                          THEN [ret.val EXCEPT !.results[k].success = FALSE,
                                   !.results[k].error =
                                       "Job still exists after deletion attempt"]
                          ELSE ret.val,
                          ret.arg.jobIds, k + 1)]
    /\ UNCHANGED <<refVars, now, used, cr, bg, dr, signalled>>

(* ------------------------------ output pipeline ----------------------- *)
\* the bytes the streams carry: 'x', and the two bytes of U+00E9 in UTF-8
Bytes == {120, 195, 169}
\* U+FFFD, what the decoder writes for a malformed sequence
Replacement == 65533

\* new TextDecoder(): no byte is pending
NoPending == [need |-> 0, cp |-> 0]

\* decoder.decode(bytes, { stream: true }) of a UTF-8 decoder in state d, for
\* bytes below 0xE0 (sequences of one and two bytes): the text is appended to
\* `text`, and the lead byte of an unfinished sequence stays pending in the decoder
RECURSIVE Decode(_, _, _)
Decode(d, bytes, text) ==
    IF bytes = <<>> THEN [decoder |-> d, text |-> text]
    ELSE IF d.need = 0
    THEN IF Head(bytes) < 128
         THEN Decode(d, Tail(bytes), Append(text, Head(bytes)))
         ELSE IF Head(bytes) >= 194 /\ Head(bytes) <= 223
         THEN Decode([need |-> 1, cp |-> Head(bytes) % 32], Tail(bytes), text)
         ELSE Decode(d, Tail(bytes), Append(text, Replacement))
    ELSE IF Head(bytes) >= 128 /\ Head(bytes) <= 191
    THEN Decode(NoPending, Tail(bytes), Append(text, (d.cp * 64) + (Head(bytes) % 64)))
    ELSE Decode(NoPending, bytes, Append(text, Replacement))

\* the chunks a stream delivers
ByteChunks == UNION {[1..n -> Bytes] : n \in 1..MaxChunkBytes}

\* processOutputStreams is called: one decoder is made for both loops. ret.arg
\* holds the chunks each stream has delivered, ret.val the decoder and the text
\* decoded for each stream
ProcessOutputStreamsCall ==
    /\ ret = NoCall
    /\ ret' = [op |-> "processOutputStreams",
               arg |-> [s \in StreamNames |-> <<>>],
               val |-> [decoder |-> NoPending, text |-> [s \in StreamNames |-> <<>>]],
               n |-> 0]
    /\ UNCHANGED <<refVars, now, used, cr, bg, dr, signalled>>

\* stream s delivers `chunk`, and its loop decodes it
DecodeChunk(s, chunk) ==
    /\ ret.op = "processOutputStreams"
    /\ Len(ret.arg[s]) < MaxDecoded
    /\ \E r \in {Decode(ret.val.decoder, chunk, <<>>)} :
           ret' = [ret EXCEPT !.arg[s] = Append(@, chunk),
                              !.val.decoder = r.decoder,
                              !.val.text[s] = @ \o r.text]
    /\ UNCHANGED <<refVars, now, used, cr, bg, dr, signalled>>

\* the items of a message's content: two text items and one that is no text
Items == {[type |-> "text", text |-> "a"], [type |-> "text", text |-> "b"],
          [type |-> "tool_use", text |-> ""]}

\* the lines given to the parser: a line that is no JSON, or the JSON of a
\* message of some type whose content is a list of items (array) or an object
\* with the same items under the keys 0, 1, ...
Lines ==
    {[json |-> FALSE, type |-> "", array |-> FALSE, content |-> <<>>]}
        \cup [json : {TRUE}, type : {"assistant", "human"}, array : BOOLEAN,
              content : UNION {[1..n -> Items] : n \in 0..MaxItems}]

\* items.map(item => item.text).join('')
RECURSIVE Join(_)
Join(items) == IF items = <<>> THEN "" ELSE Head(items).text \o Join(Tail(items))

\* a parser that returns the text of the first item only
parseFirstItemOnly(line) ==
    IF ~line.json THEN [null |-> FALSE, text |-> "raw"]
    ELSE IF line.type = "assistant" /\ line.content # <<>>
            /\ Head(line.content).type = "text"
    THEN [null |-> FALSE, text |-> Head(line.content).text]
    ELSE [null |-> TRUE, text |-> ""]

\* parseClaudeJsonOutput(jsonLine): the line itself ("raw") when it is no JSON;
\* null unless the message is of type assistant and the first item of its
\* content is of type text; else the joined texts of the text items of the
\* array, or content[0].text when the content is no array
parseClaudeJsonOutput(line) ==
    IF ~line.json THEN [null |-> FALSE, text |-> "raw"]
    ELSE IF line.type = "assistant" /\ line.content # <<>>
            /\ Head(line.content).type = "text"
    THEN IF line.array
         THEN [null |-> FALSE,
               text |-> Join(SelectSeq(line.content, LAMBDA item : item.type = "text"))]
         ELSE [null |-> FALSE, text |-> Head(line.content).text]
    ELSE [null |-> TRUE, text |-> ""]

\* parseClaudeJsonOutput is called on a line
ParseClaudeJsonOutputCall(line) ==
    /\ ~Awaiting
    /\ ret' = Called("parseClaudeJsonOutput", line, parseClaudeJsonOutput(line))
    /\ UNCHANGED <<refVars, now, used, cr, bg, dr, signalled>>

\* the characters of the decoded text: a letter, a blank and the newline
TextChars == {"a", " ", "\n"}
TextChunks == UNION {[1..n -> TextChars] : n \in 0..MaxChunkChars}

\* the place of the first newline of a text, 0 when it has none
FirstNewline(text) ==
    IF \E k \in DOMAIN text : text[k] = "\n"
    THEN CHOOSE k \in DOMAIN text : text[k] = "\n" /\ \A j \in 1..(k - 1) : text[j] # "\n"
    ELSE 0

\* text.split('\n')
RECURSIVE Split(_)
Split(text) ==
    IF FirstNewline(text) = 0 THEN <<text>>
    ELSE <<SubSeq(text, 1, FirstNewline(text) - 1)>>
             \o Split(SubSeq(text, FirstNewline(text) + 1, Len(text)))

\* line.trim() is not empty
Trimmed(line) == \E k \in DOMAIN line : line[k] # " "

\* a framing that forgets the carried buffer
processChunkAlone(buffer, newChunk) ==
    [lines |-> SelectSeq(SubSeq(Split(newChunk), 1, Len(Split(newChunk)) - 1), Trimmed),
     buffer |-> Split(newChunk)[Len(Split(newChunk))]]

\* processStreamChunk(buffer, newChunk): the lines of buffer + newChunk that
\* are complete and not blank, and the text after the last newline
processStreamChunk(buffer, newChunk) ==
    [lines |-> SelectSeq(SubSeq(Split(buffer \o newChunk), 1,
                                Len(Split(buffer \o newChunk)) - 1), Trimmed),
     buffer |-> Split(buffer \o newChunk)[Len(Split(buffer \o newChunk))]]

\* the stdout loop starts with an empty buffer. ret.arg holds the texts the
\* stream has delivered, ret.val the buffer and the lines framed so far
FrameStart ==
    /\ ret = NoCall
    /\ ret' = [op |-> "processStreamChunk", arg |-> <<>>, n |-> 0,
               val |-> [pc |-> "loop", buffer |-> <<>>, lines |-> <<>>]]
    /\ UNCHANGED <<refVars, now, used, cr, bg, dr, signalled>>

\* the loop receives the text `chunk`; an empty text is skipped
FrameChunk(chunk) ==
    /\ ret.op = "processStreamChunk" /\ ret.val.pc = "loop"
    /\ Len(ret.arg) < MaxFramed
    /\ \E r \in {processStreamChunk(ret.val.buffer, chunk)} :
           ret' = [ret EXCEPT
                      !.arg = Append(@, chunk),
                      !.val.buffer = IF chunk = <<>> THEN @ ELSE r.buffer,
                      !.val.lines = IF chunk = <<>> THEN @ ELSE @ \o r.lines]
    /\ UNCHANGED <<refVars, now, used, cr, bg, dr, signalled>>

\* the stream has ended: a buffer that is not blank is the last line
FrameFlush ==
    /\ ret.op = "processStreamChunk" /\ ret.val.pc = "loop"
    /\ ret' = [ret EXCEPT !.val.pc = "done", !.val.buffer = <<>>,
                          !.val.lines = IF Trimmed(ret.val.buffer)
                                        THEN Append(@, ret.val.buffer) ELSE @]
    /\ UNCHANGED <<refVars, now, used, cr, bg, dr, signalled>>

(* ------------------------------ specification ------------------------- *)
\* the calls of createJob in slots C with prompts of P
Creation(C, I, P) ==
    \/ \E c \in C, id \in I, given \in BOOLEAN, prompt \in P :
           CreateJobCall(c, id, given, prompt)
    \/ \E c \in C : CreateJobCheck(c)
    \/ \E c \in C : CreateJobStream(c)
    \/ \E c \in C : CreateJobSpawn(c)

\* the background tasks of slots C, without the output and the exit of their
\* processes
Task(C) ==
    \/ \E c \in C : BgStart(c)
    \/ \E c \in C, ok \in BOOLEAN : BgSpawn(c, ok)
    \/ \E c \in C : BgClear(c)
    \/ \E c \in C : BgComplete(c)
    \/ \E c \in C : BgCatch(c)
    \/ \E c \in C : BgCatchComplete(c)
    \/ \E c \in C : BgBanner(c)
    \/ \E c \in C : BgFinish(c)

\* processes that exit with any code
Exit(C) == \E c \in C, code \in {0, 1} : BgExited(c, code)

\* the calls of createJob in slots C and the background tasks they start
Lifecycle(C) == Creation(C, CallIds, {"prompt"}) \/ Task(C) \/ Exit(C)

\* the output of the processes of slots C on the streams Ss
Output(C, Ss) ==
    \/ \E c \in C, s \in Ss : DrainChunk(c, s)
    \/ \E c \in C, s \in Ss : DrainGet(c, s)
    \/ \E c \in C, s \in Ss : DrainProgress(c, s)

\* streams that fail
Failure(C, Ss) == \E c \in C, s \in Ss : DrainRaise(c, s)

\* the calls of terminateJob by the callers Ts
Termination(Ts) ==
    \/ \E t \in Ts, id \in CallIds : TerminateJobCall(t, id)
    \/ \E t \in Ts : TerminateJobCheck(t)
    \/ \E t \in Ts, killThrows \in BOOLEAN : TerminateJobSignal(t, killThrows)
    \/ \E t \in Ts : TerminateJobBanner(t)
    \/ \E t \in Ts : TerminateJobFinish(t)
    \/ \E t \in Ts : TerminateJobReturn(t)

\* terminateJob in slot t once it has been called, as far as its end
Terminating(t) ==
    \/ TerminateJobCheck(t)
    \/ \E killThrows \in BOOLEAN : TerminateJobSignal(t, killThrows)
    \/ TerminateJobBanner(t)
    \/ TerminateJobFinish(t)
    \/ TerminateJobReturn(t)

\* completeJob rejects inside terminateJob
Rescue(Ts) == \E t \in Ts : TerminateJobCatch(t)

\* the calls of deleteJob
Deletion ==
    \/ \E d \in Dels, id \in CallIds : DeleteJobCall(d, id)
    \/ \E d \in Dels : DeleteJobCheck(d)

\* one job with all of its output, and one call that terminates it
NextTerminate ==
    Lifecycle(1..1) \/ Output(1..1, StreamNames) \/ Failure(1..1, StreamNames)
        \/ Termination(1..1)

SpecTerminate == Init /\ [][NextTerminate]_vars

\* one job that writes to stdout, and the calls that terminate it
NextRace == Lifecycle(1..1) \/ Output(1..1, {"stdout"}) \/ Termination(Terms)

SpecRace == Init /\ [][NextRace]_vars

\* the calls of createJob, all with the same id, and their background tasks
NextCreate == Lifecycle(Creates) \/ Output(Creates, {"stdout"})

SpecCreate == Init /\ [][NextCreate]_vars

\* one job that writes to stdout, one call that terminates it, and the calls
\* that delete it
NextDelete ==
    Lifecycle(1..1) \/ Output(1..1, {"stdout"}) \/ Termination(1..1) \/ Rescue(1..1)
        \/ Deletion

SpecDelete == Init /\ [][NextDelete]_vars

\* a deleteJob call has removed a job
Removed == \E d \in Dels : dl[d].pc = "done" /\ dl[d].res = "success" /\ dl[d].seen # "absent"

\* a job that writes to stdout is deleted, and then a second createJob call is
\* made with the same id, whose job writes to stdout too
NextRecreate ==
    \/ Lifecycle(1..1) \/ Deletion
    \/ Removed /\ Lifecycle(2..2)
    \/ Output(Creates, {"stdout"})

SpecRecreate == Init /\ [][NextRecreate]_vars

\* the prompts given to the job that runs to its end
LivePrompts == {<<"E", "r", "r", "o", "r">>, <<"h", "i">>}

\* one job with all of its output, that nobody terminates or deletes
NextLive ==
    Creation(1..1, CallIds, LivePrompts) \/ Task(1..1) \/ Exit(1..1)
        \/ Output(1..1, StreamNames) \/ Failure(1..1, StreamNames)

\* every continuation that is due is run by the event loop, startProcess
\* settles, and the process exits once its streams are read to their end; the
\* process is free to write or not, and a stream to fail or not
Fairness ==
    /\ WF_vars(\E c \in 1..1 : CreateJobCheck(c))
    /\ WF_vars(\E c \in 1..1 : CreateJobStream(c))
    /\ WF_vars(\E c \in 1..1 : CreateJobSpawn(c))
    /\ WF_vars(Task(1..1))
    /\ WF_vars(\E c \in 1..1, s \in StreamNames : DrainGet(c, s))
    /\ WF_vars(\E c \in 1..1, s \in StreamNames : DrainProgress(c, s))
    /\ WF_vars(Exit(1..1))

SpecLive == Init /\ [][NextLive]_vars /\ Fairness

\* the registry used directly: jobs are stored, change status and are cleaned
\* up as the clock advances
NextRegistry ==
    \/ Tick
    \/ \E id \in JobIds : StorageCreateJobCall(id)
    \/ \E id \in JobIds, status \in {"running", "completed", "failed"} :
           StorageUpdateJobCall(id, status)
    \/ \E id \in JobIds : StorageCreateOutputStreamCall(id)
    \/ \E olderThan \in 0..MaxAge : StorageCleanupCall(olderThan)

SpecRegistry == Init /\ [][NextRegistry]_vars

\* the filters passed to listJobs: any of the three fields may be left out
Filters ==
    {[k \in D |-> f[k]] :
        f \in [status : {"running"}, since : {0, 2}, before : {0, 2}],
        D \in SUBSET {"status", "since", "before"}}

\* the registry used directly: jobs are stored at different times, change
\* status and are listed
NextList ==
    \/ Tick
    \/ \E id \in JobIds : StorageCreateJobCall(id)
    \/ \E id \in JobIds, status \in {"running", "completed"} :
           StorageUpdateJobCall(id, status)
    \/ \E filter \in Filters : StorageListJobsCall(filter)

SpecList == Init /\ [][NextList]_vars

\* the `since` passed to getOutputStream and getJobStream
Sinces == 0..(MaxNow - 1)

\* a job and its stream used directly: chunks are added at different times,
\* the job is stored and deleted, and the stream is read
NextStream ==
    \/ Tick
    \/ \E id \in CallIds : StorageCreateJobCall(id)
    \/ \E id \in CallIds : StorageCreateOutputStreamCall(id)
    \/ \E id \in CallIds : StorageDeleteJobCall(id)
    \/ \E id \in CallIds : StorageAddOutputChunkCall(id)
    \/ \E id \in JobIds, since \in Sinces : StorageGetOutputStreamCall(id, since)
    \/ \E id \in JobIds, since \in Sinces : GetJobStreamCall(id, since)
    \/ GetJobStreamRead

SpecStream == Init /\ [][NextStream]_vars

\* the ids generateJobId hands out to a batch
BatchIds == {IdSeq[k] : k \in 1..NCreate}

\* one createBatch call with a prompt for each slot of Creates; the jobs write
\* to stdout
NextBatch ==
    \/ \E c \in Creates, id \in BatchIds : createBatch(c, id)
    \/ \E c \in Creates : CreateJobStream(c)
    \/ \E c \in Creates : CreateJobSpawn(c)
    \/ Task(Creates) \/ Exit(Creates) \/ Output(Creates, {"stdout"})

\* as for SpecLive: due continuations run, startProcess settles, processes exit
FairnessBatch ==
    /\ \A c \in Creates : WF_vars(CreateJobStream(c))
    /\ \A c \in Creates : WF_vars(CreateJobSpawn(c))
    /\ \A c \in Creates : WF_vars(Task({c}))
    /\ \A c \in Creates : WF_vars(DrainGet(c, "stdout"))
    /\ \A c \in Creates : WF_vars(DrainProgress(c, "stdout"))
    /\ \A c \in Creates : WF_vars(Exit({c}))

SpecBatch == Init /\ [][NextBatch]_vars /\ FairnessBatch

\* one createBatch call as in SpecBatch, on a registry that holds a job stored
\* before the batch: the registry is full when the job of the second prompt is
\* to be stored. generateJobId does not give the id of the job that is stored
NextBatchFull ==
    \/ \E id \in JobIds \ BatchIds : ret = NoCall /\ used = {} /\ StorageCreateJobCall(id)
    \/ NextBatch

SpecBatchFull == Init /\ [][NextBatchFull]_vars /\ FairnessBatch

\* the batch on the full registry, with a deleteJob call that makes room
NextCapacity == NextBatchFull \/ Deletion

SpecCapacity == Init /\ [][NextCapacity]_vars

\* the prompts given to the simulated adapter: one for each of its responses
MockPrompts == {<<"a", " ", "L", "o", "n", "g", " ", "j", "o", "b">>,
                <<"c", "o", "m", "p", "l", "e", "x">>,
                <<"f", "a", "i", "l">>, <<"E", "r", "r", "o", "r">>, <<"h", "i">>}

\* the background task with the simulated adapter, whose startProcess never
\* rejects and whose streams never fail
MockTask(C) ==
    \/ \E c \in C : BgStart(c)
    \/ \E c \in C : BgSpawn(c, TRUE)
    \/ \E c \in C : BgClear(c)
    \/ \E c \in C : BgComplete(c)
    \/ \E c \in C : BgBanner(c)
    \/ \E c \in C : BgFinish(c)

\* the simulated process of the tasks of slots C
MockProcess(C) ==
    \/ \E c \in C, s \in StreamNames : MockChunk(c, s)
    \/ \E c \in C, s \in StreamNames : DrainGet(c, s)
    \/ \E c \in C, s \in StreamNames : DrainProgress(c, s)
    \/ \E c \in C : MockExited(c)

\* one job run by the simulated adapter, that nobody terminates or deletes
NextMock == Creation(1..1, CallIds, MockPrompts) \/ MockTask(1..1) \/ MockProcess(1..1)

\* due continuations run and the timers of the simulated process fire
FairnessMock ==
    /\ WF_vars(\E c \in 1..1 : CreateJobCheck(c))
    /\ WF_vars(\E c \in 1..1 : CreateJobStream(c))
    /\ WF_vars(\E c \in 1..1 : CreateJobSpawn(c))
    /\ WF_vars(MockTask(1..1))
    /\ WF_vars(MockProcess(1..1))

SpecMock == Init /\ [][NextMock]_vars /\ FairnessMock

\* the lists of job ids sent to the bulk endpoints: the id of the job that is
\* created, and an id that is never in the registry
BulkIds == {<<IdSeq[1]>>, <<IdSeq[1], IdSeq[2]>>, <<IdSeq[2], IdSeq[1]>>}

\* the handler of POST /batch/:jobIds/terminate, with the terminateJob it calls
TerminateBatch ==
    \/ \E ids \in BulkIds, force \in BOOLEAN, wait \in BOOLEAN :
           TerminateBatchCall(ids, force, wait)
    \/ TerminateBatchGot
    \/ TerminateBatchTerminate(1)
    \/ TerminateBatchCollect(1)
    \/ TerminateBatchVerify

\* the handler of DELETE /batch/:jobIds, with the terminateJob and the
\* deleteJob it calls
DeleteBatch ==
    \/ \E ids \in BulkIds, force \in BOOLEAN : DeleteBatchCall(ids, force)
    \/ DeleteBatchGot
    \/ DeleteBatchTerminate(1)
    \/ DeleteBatchTerminated(1)
    \/ DeleteBatchDelete(1)
    \/ DeleteBatchCollect(1)
    \/ DeleteBatchVerify

\* one job that writes to stdout, the clock, and one request to a bulk endpoint
NextBulk ==
    Lifecycle(1..1) \/ Output(1..1, {"stdout"}) \/ Tick
        \/ TerminateBatch \/ DeleteBatch \/ Terminating(1) \/ DeleteJobCheck(1)

SpecBulk == Init /\ [][NextBulk]_vars

\* the two streams of one process are decoded, in any interleaving of their
\* chunks
NextDecode ==
    \/ ProcessOutputStreamsCall
    \/ \E s \in StreamNames, chunk \in ByteChunks : DecodeChunk(s, chunk)

SpecDecode == Init /\ [][NextDecode]_vars

\* the parser applied to lines
NextParse == \E line \in Lines : ParseClaudeJsonOutputCall(line)

SpecParse == Init /\ [][NextParse]_vars

\* the registry used directly: jobs are stored and end in any of the three
\* final statuses as the clock advances
NextEvict ==
    \/ Tick
    \/ \E id \in JobIds : StorageCreateJobCall(id)
    \/ \E id \in JobIds, status \in {"running", "completed", "failed", "terminated"} :
           StorageUpdateJobCall(id, status)

SpecEvict == Init /\ [][NextEvict]_vars

\* a job whose stream receives chunks as the clock advances, never more than
\* the stream keeps, and a client that polls it
NextPoll ==
    \/ Tick
    \/ \E id \in CallIds : StorageCreateJobCall(id)
    \/ \E id \in CallIds : StorageCreateOutputStreamCall(id)
    \/ \E id \in CallIds :
           Len(streams[id].chunks) < MaxOutputChunks /\ StorageAddOutputChunkCall(id)
    \/ \E id \in CallIds : LoadJobOutputCall(id)
    \/ LoadJobOutputRead

SpecPoll == Init /\ [][NextPoll]_vars

\* one stdout stream is framed into lines
NextFrame ==
    \/ FrameStart
    \/ \E chunk \in TextChunks : FrameChunk(chunk)
    \/ FrameFlush

SpecFrame == Init /\ [][NextFrame]_vars

(* ------------------------------ observations ------------------------- *)
\* the stored job object of id (the job must be stored)
Job(id) == heap[jobs[id]]

\* the outputHistory of the stored job of id
History(id) == arrs[heap[jobs[id]].outputHistory]

\* the registry as its readers see it: every stored job with its history, the
\* streams and the insertion order, without the numbers of the references
View ==
    [job |-> [i \in JobIds |-> IF jobs[i] = 0 THEN <<>>
                               ELSE <<[Job(i) EXCEPT !.outputHistory = History(i)]>>],
     streams |-> streams, order |-> order]

Final == {"completed", "failed", "terminated"}

\* the step keeps the job stored under id (the same job, not a new one with the id)
SameJob(id) == jobs[id] # 0 /\ jobs'[id] # 0 /\ Job(id)'.color = Job(id).color

(* ------------------------------ C1 ------------------------------------ *)
\* C1: every change of a job's stored status follows one of the edges
\* pending->running, running->terminating, terminating->terminated,
\* running->completed, running->failed or the revert terminating->running; in
\* particular no job leaves completed, failed or terminated.
C1_StatusEdges ==
    [][\A id \in JobIds :
          (SameJob(id) /\ Job(id)'.status # Job(id).status)
              => <<Job(id).status, Job(id)'.status>> \in
                     {<<"pending", "running">>, <<"running", "terminating">>,
                      <<"terminating", "terminated">>, <<"running", "completed">>,
                      <<"running", "failed">>, <<"terminating", "running">>}]_vars

(* ------------------------------ C2 ------------------------------------ *)
\* C2: of two terminateJob calls that overlap and that both met the same running
\* job with its process handle attached, at most one returns success.
C2_OneSuccess ==
    \A t, u \in Terms :
        (/\ t \in tm[u].during
         /\ tm[t].inst = tm[u].inst /\ tm[t].inst # 0
         /\ tm[t].seen = "running" /\ tm[u].seen = "running"
         /\ tm[t].live /\ tm[u].live
         /\ tm[t].pc = "done" /\ tm[u].pc = "done")
            => ~(tm[t].res = "success" /\ tm[u].res = "success")

(* ------------------------------ C3 ------------------------------------ *)
\* C3: once terminateJob has returned success, the job it terminated has status
\* terminated for as long as it is stored.
C3_TerminatedIsFinal ==
    \A t \in Terms :
        (/\ tm[t].pc = "done" /\ tm[t].res = "success"
         /\ jobs[tm[t].id] # 0 /\ Job(tm[t].id).color = tm[t].inst)
            => Job(tm[t].id).status = "terminated"

(* ------------------------------ C4 ------------------------------------ *)
\* C4: a step from a state in which a job is completed, failed or terminated
\* leaves the job's outputHistory and its stream's chunks as they are.
C4_NoChunkAfterFinal ==
    [][\A id \in JobIds :
          (SameJob(id) /\ Job(id).status \in Final)
              => /\ History(id)' = History(id)
                 /\ streams'[id].chunks = streams[id].chunks]_vars

(* ------------------------------ C5 ------------------------------------ *)
\* C5: a stored job has a process handle only while its status is running.
C5_ProcessOnlyWhileRunning ==
    \A id \in JobIds :
        (jobs[id] # 0 /\ Job(id).process # 0) => Job(id).status = "running"

(* ------------------------------ C6 ------------------------------------ *)
\* C6: finishedAt of a stored job is null (0) while the status is pending,
\* running or terminating, and set when it is completed, failed or terminated.
C6_FinishedAt ==
    \A id \in JobIds :
        jobs[id] # 0 => (Job(id).finishedAt # 0 <=> Job(id).status \in Final)

(* ------------------------------ C7 ------------------------------------ *)
\* C7: a createJob call with a caller-supplied id that finds a job stored under
\* that id changes nothing in the registry, nothing of any background task, and
\* rejects with 'Job ID already exists'; no background task is ever started for it.
C7_ConflictRejects ==
    /\ [][\A c \in Creates :
            /\ (cr[c].pc = "idle" /\ cr'[c].pc = "check" /\ cr'[c].existing)
                   => (View' = View /\ bg' = bg /\ dr' = dr)
            /\ (cr[c].pc = "check" /\ cr[c].existing /\ cr'[c] # cr[c])
                   => /\ cr'[c].pc = "done"
                      /\ cr'[c].res = "Job ID already exists"
                      /\ View' = View /\ bg' = bg /\ dr' = dr]_vars
    /\ [](\A c \in Creates : cr[c].res = "Job ID already exists" => bg[c].pc = "none")

\* a call was rejected for a conflict while the first job's task was at work
C7_Witness ==
    \E c, d \in Creates :
        /\ cr[c].res = "Job ID already exists" /\ cr[d].res = "started"
        /\ bg[d].pc = "streams" /\ jobs[cr[c].id] # 0

(* ------------------------------ C8 ------------------------------------ *)
\* C8: outputHistory and the stream's chunks never hold more than
\* maxOutputChunks chunks.
C8_Bounded ==
    \A id \in JobIds :
        /\ jobs[id] # 0 => Len(History(id)) <= MaxOutputChunks
        /\ Len(streams[id].chunks) <= MaxOutputChunks

(* ------------------------------ C9 ------------------------------------ *)
\* C9: a terminateJob call that met no job under its id rejects with 'Job not
\* found', one that met a job whose status was not running rejects with 'Job is
\* not running'; neither changes the registry nor signals any process.
C9_Rejects ==
    [][\A t \in Terms :
          /\ (tm[t].pc = "idle" /\ tm'[t].pc = "read")
                 => (View' = View /\ signalled' = signalled)
          /\ (tm[t].pc = "read" /\ tm'[t].pc # "read" /\ tm[t].seen # "running")
                 => /\ tm'[t].pc = "done"
                    /\ tm'[t].res = IF tm[t].seen = "absent" THEN "Job not found"
                                    ELSE "Job is not running"
                    /\ View' = View /\ signalled' = signalled]_vars

\* one call was rejected for an absent job, another for a completed one
C9_Witness ==
    \E t, u \in Terms :
        /\ tm[t].res = "Job not found" /\ tm[t].seen = "absent"
        /\ tm[u].res = "Job is not running" /\ tm[u].seen = "completed"

(* ------------------------------ C10 ----------------------------------- *)
\* the calls that have set status terminating and have neither finalized nor
\* reverted it yet
Marking == {"marked", "cj_got", "cj_added", "cj_threw"}

\* C10: a terminateJob call that, after setting terminating, finds no process
\* handle or whose kill throws, sets the stored status back to running and
\* rejects; and a stored job is in terminating only while a terminateJob call
\* on it is between setting that status and finalizing or reverting it, so no
\* call returns leaving it there.
C10_Reverts ==
    /\ [][\A t \in Terms :
            /\ (tm[t].pc = "marked" /\ tm'[t].pc # "marked")
                   => \/ heap[tm[t].job].process # 0 /\ tm'[t].pc = "cj_got"
                      \/ /\ tm'[t].pc = "reverted"
                         /\ tm'[t].res \in {"No active process to terminate",
                                            "Failed to terminate process"}
                         /\ jobs'[tm[t].id] # 0
                         /\ Job(tm[t].id)'.status = "running"
            /\ (tm[t].pc = "reverted" /\ tm'[t].pc # "reverted")
                   => (tm'[t].pc = "done" /\ tm'[t].res = tm[t].res)]_vars
    /\ [](\A id \in JobIds :
            (jobs[id] # 0 /\ Job(id).status = "terminating")
                => \E t \in Terms : tm[t].id = id /\ tm[t].pc \in Marking)

\* a call failed for want of a process handle, and a later call terminated the job
C10_Witness ==
    \E t, u \in Terms :
        /\ tm[t].pc = "done" /\ tm[t].res = "No active process to terminate"
        /\ t \notin tm[u].during /\ tm[u].inst = tm[t].inst
        /\ tm[u].pc = "done" /\ tm[u].res = "success"
        /\ Job(tm[u].id).status = "terminated"

(* ------------------------------ C11 ----------------------------------- *)
\* C11: a deleteJob call that met a running job rejects with 'Cannot delete
\* running job' and leaves the job and its stream stored; one that met no job
\* returns success and changes nothing; one that met a job in another status
\* returns success, after which neither the job nor its stream is stored.
C11_Delete ==
    [][\A d \in Dels :
          /\ (dl[d].pc = "idle" /\ dl'[d].pc = "read") => View' = View
          /\ (dl[d].pc = "read" /\ dl'[d].pc # "read")
                 => /\ dl'[d].pc = "done"
                    /\ dl[d].seen = "running"
                           => /\ dl'[d].res = "Cannot delete running job"
                              /\ View' = View
                    /\ dl[d].seen = "absent"
                           => (dl'[d].res = "success" /\ View' = View)
                    /\ dl[d].seen \notin {"running", "absent"}
                           => /\ dl'[d].res = "success"
                              /\ jobs'[dl[d].id] = 0
                              /\ ~streams'[dl[d].id].present]_vars

(* ------------------------------ C12 ----------------------------------- *)
\* the process of the task in slot c behaved as the simulated adapter scripts it
\* for the job's prompt: it started, no stream failed, it wrote the scripted
\* number of chunks to each stream and exited with the scripted code
Scripted(c) ==
    /\ bg[c].exit = selectMockResponse(bg[c].prompt).exitCode
    /\ \A s \in StreamNames : ~dr[c][s].last
    /\ dr[c]["stdout"].n = selectMockResponse(bg[c].prompt).outputChunks
    /\ dr[c]["stderr"].n = selectMockResponse(bg[c].prompt).errorChunks

\* the chunks of type `type` in the stream of id
OfType(id, type) ==
    {i \in DOMAIN streams[id].chunks : streams[id].chunks[i].type = type}

\* C12: a job that is created and that nobody terminates or deletes eventually
\* has status completed or failed and its task is over; when its process has
\* exited, the status is completed for exit code 0 and otherwise failed with
\* 'Process exited with code N' as the last line of completeMessage; and a job
\* whose prompt contains "error", run by the simulated adapter, ends failed with
\* exit code 1 and exactly one stderr chunk in its stream.
C12_ReachesTerminal ==
    /\ \A c \in 1..1 :
           (bg[c].pc = "start")
               ~> (/\ bg[c].pc = "done" /\ jobs[bg[c].id] # 0
                   /\ Job(bg[c].id).status \in {"completed", "failed"})
    /\ [](\A c \in 1..1 :
            (bg[c].pc = "done" /\ bg[c].exit >= 0)
                => /\ jobs[bg[c].id] # 0
                   /\ bg[c].exit = 0 => Job(bg[c].id).status = "completed"
                   /\ bg[c].exit # 0
                          => /\ Job(bg[c].id).status = "failed"
                             /\ Len(Job(bg[c].id).completeMessage) > 0
                             /\ Job(bg[c].id).completeMessage[Len(Job(bg[c].id).completeMessage)]
                                    = Text("Process exited with code", 0, bg[c].exit)
                   /\ (includes(toLowerCase(bg[c].prompt), Chars("error")) /\ Scripted(c))
                          => /\ Job(bg[c].id).status = "failed"
                             /\ bg[c].exit = 1
                             /\ Cardinality(OfType(bg[c].id, "stderr")) = 1)

\* the simulated run of a prompt with "Error" in it is over, and so is a run
\* that exited with code 0
C12_Witness ==
    \E c \in 1..1 :
        /\ bg[c].pc = "done" /\ Scripted(c)
        /\ includes(toLowerCase(bg[c].prompt), Chars("error"))
        /\ Job(bg[c].id).status = "failed"

(* ------------------------------ C13 ----------------------------------- *)
\* C13: createJob settles with 'started', 'Job ID already exists' (only when it
\* found the id stored) or 'Maximum job limit reached', and no later step
\* changes what it settled with. An exception in the background task is
\* caught there: when the catch block finds the job it calls completeJob with
\* failed and the exception's message, and completeJob's write stores status
\* failed with that message as the last line of completeMessage; when the job
\* is found neither by the catch block nor by completeJob the registry is left as
\* it is and the task ends. With no terminateJob call made, a stored job whose
\* task is over without an exit of its process is failed.
C13_FailureStaysInTask ==
    /\ [][\A c \in Creates :
            /\ cr[c].pc = "done" => cr'[c] = cr[c]
            /\ cr'[c].res \in {"", "started", "Job ID already exists",
                               "Maximum job limit reached"}
            /\ (cr[c].pc # "done" /\ cr'[c].res = "Job ID already exists")
                   => cr[c].existing
            /\ (bg[c].pc = "thrown" /\ bg'[c] # bg[c])
                   => (bg'[c].pc = "caught" /\ View' = View)
            /\ (bg[c].pc = "caught" /\ bg'[c] # bg[c])
                   => /\ View' = View
                      /\ IF bg[c].found
                         THEN /\ bg'[c].pc = "cj_got"
                              /\ bg'[c].cj.status = "failed"
                              /\ bg'[c].cj.msg = bg[c].err
                         ELSE bg'[c].pc = "done"
            /\ (bg[c].rethrow /\ bg[c].pc = "cj_got" /\ ~bg[c].cj.found /\ bg'[c] # bg[c])
                   => (bg'[c].pc = "done" /\ View' = View)
            /\ (bg[c].rethrow /\ bg[c].pc = "cj_added" /\ bg'[c] # bg[c])
                   => /\ bg'[c].pc = "done"
                      /\ IF jobs[bg[c].id] # 0
                         THEN /\ Job(bg[c].id)'.status = "failed"
                              /\ Job(bg[c].id)'.completeMessage
                                     = bg[c].cj.progress \o <<Text(bg[c].cj.msg, 0, 0)>>
                              /\ bg[c].cj.msg \in {"Failed to start process", "Job not found"}
                         ELSE View' = View]_vars
    /\ [](\A c \in Creates :
            (/\ bg[c].pc = "done" /\ bg[c].exit < 0 /\ jobs[bg[c].id] # 0
             /\ \A t \in Terms : tm[t].pc = "idle")
                => Job(bg[c].id).status = "failed")

\* the adapter failed to start the process of a job: createJob had returned
\* 'started', and the job is stored as failed with the message
C13_Witness ==
    \E c \in Creates :
        /\ cr[c].res = "started" /\ bg[c].pc = "done" /\ bg[c].exit < 0
        /\ jobs[bg[c].id] # 0 /\ Job(bg[c].id).status = "failed"
        /\ Job(bg[c].id).completeMessage = <<Text("Failed to start process", 0, 0)>>

(* ------------------------------ C14 ----------------------------------- *)
\* C14: while the job of an active background task is not stored and has no
\* stream, no step stores a job or a stream under its id, and the task takes
\* no step that raises an exception.
C14_RemovedJobUntouched ==
    [][\A c \in Creates :
          (/\ bg[c].pc \notin {"none", "done"}
           /\ jobs[bg[c].id] = 0 /\ ~streams[bg[c].id].present)
              => /\ jobs'[bg[c].id] = 0
                 /\ ~streams'[bg[c].id].present
                 /\ bg'[c].pc # "thrown"]_vars

(* ------------------------------ C15 ----------------------------------- *)
\* finishedAt if it is set, startedAt otherwise
EffectiveTimestamp(id) ==
    IF Job(id).finishedAt # 0 THEN Job(id).finishedAt ELSE Job(id).startedAt

\* the stored jobs that are not running and older than now - olderThan
Expired(olderThan) ==
    {i \in JobIds : /\ jobs[i] # 0 /\ Job(i).status # "running"
                    /\ EffectiveTimestamp(i) < now - olderThan}

\* C15: cleanup(t) removes the jobs that are not running and whose finishedAt
\* (startedAt when finishedAt is not set) is less than now - t, each with its
\* stream; it leaves every other job, every other stream and the order of the
\* remaining jobs as they are, and returns the number of jobs it removed.
C15_Cleanup ==
    [][(ret'.op = "cleanup" /\ ret'.n # ret.n)
          => /\ \A i \in Expired(ret'.arg) : jobs'[i] = 0 /\ ~streams'[i].present
             /\ \A i \in JobIds \ Expired(ret'.arg) :
                    View'.job[i] = View.job[i] /\ streams'[i] = streams[i]
             /\ order' = SelectSeq(order, LAMBDA i : i \notin Expired(ret'.arg))
             /\ ret'.val = Cardinality(Expired(ret'.arg))]_vars

\* a cleanup removed one job and kept a running job that is as old
C15_Witness ==
    /\ ret.op = "cleanup" /\ ret.val = 1
    /\ \E i \in JobIds : /\ jobs[i] # 0 /\ Job(i).status = "running"
                         /\ Job(i).startedAt < now - ret.arg

(* ------------------------------ C16 ----------------------------------- *)
\* the stored jobs that are completed or failed
Finished == {i \in JobIds : jobs[i] # 0 /\ Job(i).status \in {"completed", "failed"}}

\* the step stores a new pending job under id and changes no entry but those of
\* id and of the ids in Gone, whose streams it removes
Inserts(id, Gone) ==
    /\ ret'.val = "created"
    /\ jobs'[id] # 0
    /\ Job(id)'.status = "pending" /\ Job(id)'.startedAt = now /\ History(id)' = <<>>
    /\ \A e \in Gone : ~streams'[e].present /\ (e # id => jobs'[e] = 0)
    /\ \A i \in JobIds \ (Gone \cup {id}) :
           View'.job[i] = View.job[i] /\ streams'[i] = streams[i]
    /\ id \notin Gone => streams'[id] = streams[id]

\* C16: storage.createJob below capacity inserts the job and touches nothing
\* else. At capacity it removes exactly one job, a completed or failed one
\* whose finishedAt is the least among those, with its stream, and then
\* inserts; with no completed or failed job stored it throws 'Maximum job limit
\* reached' and leaves the registry as it is. No pending, running or
\* terminating job is ever removed by it.
C16_Capacity ==
    [][\A id \in JobIds :
          (ret'.op = "createJob" /\ ret'.arg = id /\ ret'.n # ret.n)
              => IF Cardinality({i \in JobIds : jobs[i] # 0}) < MaxJobsInMemory
                 THEN Inserts(id, {})
                 ELSE IF Finished = {}
                 THEN ret'.val = "Maximum job limit reached" /\ View' = View
                 ELSE \E e \in Finished :
                          /\ \A j \in Finished : Job(e).finishedAt <= Job(j).finishedAt
                          /\ Inserts(id, {e})]_vars

\* a createJob call was refused with the registry full of pending or running jobs
C16_Witness ==
    /\ ret.op = "createJob" /\ ret.val = "Maximum job limit reached"
    /\ Cardinality({i \in JobIds : jobs[i] # 0}) = MaxJobsInMemory
    /\ \A i \in JobIds : jobs[i] # 0 => Job(i).status \in {"pending", "running"}

(* ------------------------------ C17 ----------------------------------- *)
\* the stored jobs that satisfy every predicate the filter supplies
Matching(filter) ==
    {i \in JobIds :
        /\ jobs[i] # 0
        /\ "status" \in DOMAIN filter => Job(i).status = filter.status
        /\ "since" \in DOMAIN filter => Job(i).startedAt >= filter.since
        /\ "before" \in DOMAIN filter => Job(i).startedAt <= filter.before}

\* C17: listJobs(filter) returns each stored job that satisfies all the
\* predicates the filter supplies (status equal, startedAt >= since, startedAt
\* <= before) once and no other job, a field left out being no constraint, in
\* the order of startedAt descending; and it leaves the registry as it is.
C17_ListJobs ==
    [][(ret'.op = "listJobs" /\ ret'.n # ret.n)
          => /\ {ret'.val[k] : k \in DOMAIN ret'.val} = Matching(ret'.arg)
             /\ Len(ret'.val) = Cardinality(Matching(ret'.arg))
             /\ \A k, l \in DOMAIN ret'.val :
                    k < l => Job(ret'.val[k]).startedAt >= Job(ret'.val[l]).startedAt
             /\ View' = View]_vars

(* ------------------------------ C18 ----------------------------------- *)
\* the chunks of the stream of id that are newer than since, in stored order
Newer(id, since) == SelectSeq(streams[id].chunks, LAMBDA c : c.timestamp > since)

\* C18: getJobStream(id, since) changes nothing in the registry. For an id
\* under which no job was stored when it was called it returns null (and no
\* stream is created); otherwise it returns the chunks of the stream, as stored
\* when the stream is read, whose timestamp is greater than since, in stored
\* order, and all of them for since = 0. storage.getOutputStream(id, since)
\* returns null when there is no stream and the same chunks otherwise.
C18_GetJobStream ==
    [][\A id \in JobIds, since \in Sinces :
          /\ (ret'.op = "getJobStream" /\ ret'.arg = <<id, since>>
                  /\ ret'.val.pc = "await" /\ ret' # ret)
                 => View' = View /\ (ret'.val.found <=> jobs[id] # 0)
          /\ (ret.op = "getJobStream" /\ ret.arg = <<id, since>>
                  /\ ret.val.pc = "await" /\ ret' # ret)
                 => /\ View' = View
                    /\ ret'.op = "getJobStream" /\ ret'.val.pc = "done"
                    /\ IF ret.val.found
                       THEN /\ ~ret'.val.null
                            /\ ret'.val.chunks = Newer(id, since)
                            /\ since = 0 => ret'.val.chunks = streams[id].chunks
                       ELSE ret'.val.null
          /\ (ret'.op = "getOutputStream" /\ ret'.arg = <<id, since>> /\ ret'.n # ret.n)
                 => /\ View' = View
                    /\ ret'.val.null <=> ~streams[id].present
                    /\ ret'.val.chunks = Newer(id, since)
                    /\ since = 0 => ret'.val.chunks = streams[id].chunks]_vars

\* getJobStream returned some but not all of the chunks of a stream
C18_Witness ==
    /\ ret.op = "getJobStream" /\ ret.val.pc = "done" /\ ~ret.val.null
    /\ ret.arg[2] > 0
    /\ Len(ret.val.chunks) > 0
    /\ Len(ret.val.chunks) < Len(streams[ret.arg[1]].chunks)

(* ------------------------------ C19 ----------------------------------- *)
\* s is a prefix of t
IsPrefix(s, t) == Len(s) <= Len(t) /\ SubSeq(t, 1, Len(s)) = s

\* C19: while a job is not completed, failed or terminated, every step leaves
\* the progress it had as a prefix of the progress it has afterwards.
C19_ProgressAppendOnly ==
    [][\A id \in JobIds :
          (SameJob(id) /\ Job(id).status \notin Final)
              => IsPrefix(Job(id).progress, Job(id)'.progress)]_vars

(* ------------------------------ C20 ----------------------------------- *)
\* the chunks held for id: those of its outputHistory and those of its stream
Chunks(id) ==
    {streams[id].chunks[k] : k \in DOMAIN streams[id].chunks}
        \cup (IF jobs[id] = 0 THEN {}
              ELSE {History(id)[k] : k \in DOMAIN History(id)})

\* C20: the ids createBatch returns are pairwise distinct; every job of the
\* batch eventually is completed or failed with its task over, completed
\* exactly when its own process exited with code 0; and every chunk in a job's
\* outputHistory or stream carries the job's id and is a system chunk or was
\* written by the job's own process.
C20_Batch ==
    /\ [](BatchReturned => \A c, d \in Creates : c # d => jobIds[c] # jobIds[d])
    /\ \A c \in Creates :
           (bg[c].pc = "start")
               ~> (/\ bg[c].pc = "done" /\ jobs[bg[c].id] # 0
                   /\ Job(bg[c].id).status \in {"completed", "failed"})
    /\ [](\A c \in Creates :
            (bg[c].pc = "done" /\ bg[c].exit >= 0 /\ jobs[bg[c].id] # 0)
                => (Job(bg[c].id).status = "completed" <=> bg[c].exit = 0))
    /\ [](\A id \in JobIds : \A chunk \in Chunks(id) :
            /\ chunk.jobId = id
            /\ chunk.text.p # 0 => cr[chunk.text.p].id = id)

\* the batch has returned, one of its jobs is completed and another failed,
\* each with the line its process wrote
C20_Witness ==
    /\ BatchReturned
    /\ \E c, d \in Creates :
          /\ bg[c].pc = "done" /\ bg[c].exit = 0 /\ bg[d].pc = "done" /\ bg[d].exit = 1
          /\ jobs[jobIds[c]] # 0 /\ jobs[jobIds[d]] # 0
          /\ Job(jobIds[c]).status = "completed" /\ Job(jobIds[d]).status = "failed"
          /\ \E chunk \in Chunks(jobIds[c]) : chunk.text.p = c
          /\ \E chunk \in Chunks(jobIds[d]) : chunk.text.p = d

(* ------------------------------ C21 ----------------------------------- *)
\* the texts of the stdout chunks of a sequence of chunks, in its order
StdoutTexts(chunks) ==
    [k \in DOMAIN SelectSeq(chunks, LAMBDA ch : ch.type = "stdout") |->
        SelectSeq(chunks, LAMBDA ch : ch.type = "stdout")[k].text]

\* step markers 1 to n of the process of task c
Steps(c, n) == [k \in 1..n |-> Text("stdout", c, k)]

\* the prompt of task c selects the long response
IsLong(c) ==
    /\ ~includes(toLowerCase(bg[c].prompt), Chars("error"))
    /\ ~includes(toLowerCase(bg[c].prompt), Chars("fail"))
    /\ includes(toLowerCase(bg[c].prompt), Chars("long"))

Bulk == ret.op \in {"terminateBatch", "deleteBatch"}
Answered == Bulk /\ ret.val.pc = "done"

\* the counts of the summary add up to the number of entries
Partitioned ==
    IF ret.op = "terminateBatch"
    THEN /\ ret.val.summary.terminated + ret.val.summary.failed
                + ret.val.summary.alreadyStopped = Len(ret.val.results)
         /\ ret.val.summary.processed = Len(ret.val.results)
         /\ ret.val.summary.total = Len(ret.arg.jobIds)
    ELSE /\ ret.val.summary.deleted + ret.val.summary.failed = Len(ret.val.results)
         /\ ret.val.summary.total = Len(ret.arg.jobIds)

\* the terminate handler ran in wait mode and its timeout has elapsed
TimedOut ==
    ret.op = "terminateBatch" /\ ret.arg.wait /\ now - ret.val.startTime > TimeoutMs

\* C22 as stated: the answer of a bulk terminate or bulk delete holds exactly
\* one entry per supplied id, in the order of the ids, and the counts of the
\* summary partition the entries.
C22_OneEntryPerId ==
    Answered =>
        /\ Len(ret.val.results) = Len(ret.arg.jobIds)
        /\ \A k \in 1..Len(ret.val.results) : ret.val.results[k].jobId = ret.arg.jobIds[k]
        /\ Partitioned

\* C22, amended: the entries of a bulk terminate or bulk delete are at any time
\* one per id for a prefix of the supplied ids; an id that is not in the
\* registry gives a failed entry 'Job not found' wherever it stands and leaves
\* the other entries as they are; the answer holds an entry for every id unless
\* the terminate handler ran in wait mode and its timeout elapsed; the counts
\* of the summary partition the entries.
C22_Isolated ==
    Bulk =>
        /\ Len(ret.val.results) <= Len(ret.arg.jobIds)
        /\ \A k \in 1..Len(ret.val.results) :
               /\ ret.val.results[k].jobId = ret.arg.jobIds[k]
               /\ ret.val.results[k].jobId \notin CallIds
                      => /\ ~ret.val.results[k].success
                         /\ ret.val.results[k].error = "Job not found"
               /\ (ret.val.results[k].success /\ ret.op = "terminateBatch")
                      => \/ ret.val.results[k].status = "terminated"
                         \/ ret.arg.force /\ ret.val.results[k].status \in
                                {"pending", "terminating", "completed", "failed"}
        /\ ret.val.pc = "done"
               => /\ Len(ret.val.results) < Len(ret.arg.jobIds) => TimedOut
                  /\ Partitioned

\* a batch whose first id failed and whose second id succeeded
C22_Witness ==
    /\ Answered
    /\ Len(ret.val.results) = 2
    /\ ~ret.val.results[1].success
    /\ ret.val.results[2].success
    /\ ret.val.results[2].at > 0

(* ------------------------------ C23 ----------------------------------- *)
\* createBatch rejected at prompt k: the calls before it returned, call k threw
BatchFailedAt(k) ==
    /\ cr[k].pc = "done" /\ cr[k].res = "Maximum job limit reached"
    /\ \A j \in 1..(k - 1) : cr[j].pc = "done" /\ cr[j].res = "started"

\* C23: createBatch stores the jobs in the order of the prompts; once the
\* createJob of prompt k has failed, the jobs of prompts 1..k-1 stay in the
\* registry, and each of them eventually is in a terminal status with its
\* task over.
C23_NoRollback ==
    /\ [](\A c, d \in Creates :
            (c < d /\ cr[c].pc \notin {"idle", "check"} /\ cr[d].pc \notin {"idle", "check"}
                 /\ jobs[cr[c].id] # 0 /\ jobs[cr[d].id] # 0)
                => Position(order, cr[c].id) < Position(order, cr[d].id))
    /\ [](\A k \in Creates : BatchFailedAt(k) =>
            \A j \in 1..(k - 1) : jobs[cr[j].id] # 0 /\ bg[j].pc # "none")
    /\ \A k \in Creates : \A j \in Creates :
           (j < k /\ BatchFailedAt(k))
               ~> (/\ bg[j].pc = "done" /\ jobs[cr[j].id] # 0
                   /\ Job(cr[j].id).status \in Final)

\* the batch failed at its second prompt and the job of the first is completed
C23_Witness ==
    /\ BatchFailedAt(2)
    /\ bg[1].pc = "done"
    /\ jobs[cr[1].id] # 0 /\ Job(cr[1].id).status = "completed"

(* ------------------------------ C24 ----------------------------------- *)
\* C24: in a bulk delete in force mode, the entry of a job that was running
\* when the handler read it reports success, and from then on neither the job
\* nor its output stream is in the registry.
C24_ForceDeletesRunning ==
    (ret.op = "deleteBatch" /\ ret.arg.force) =>
        \A k \in 1..Len(ret.val.results) :
            ret.val.results[k].status = "running"
                => /\ ret.val.results[k].success
                   /\ jobs[ret.val.results[k].jobId] = 0
                   /\ ~streams[ret.val.results[k].jobId].present

(* ------------------------------ C25 ----------------------------------- *)
\* C25: a deleteJob call whose id was not in the registry when it read it ends
\* by rejecting with 'Job not found'.
C25_AbsentRejects ==
    \A d \in Dels :
        (dl[d].pc = "done" /\ dl[d].seen = "absent") => dl[d].res = "Job not found"

(* ------------------------------ C26 ----------------------------------- *)
\* C26: of two createJob calls with the same id, made while no job with that
\* id is removed, at most one returns 'started', at most one has started a
\* background task, and at most one has had a process started for the id.
C26_OneCreation ==
    \A c, d \in Creates :
        (c # d /\ cr[c].pc # "idle" /\ cr[d].pc # "idle" /\ cr[c].id = cr[d].id)
            => /\ ~(cr[c].res = "started" /\ cr[d].res = "started")
               /\ ~(bg[c].pc # "none" /\ bg[d].pc # "none")
               /\ ~(bg[c].pc \notin {"none", "start", "spawn"}
                        /\ bg[d].pc \notin {"none", "start", "spawn"})

(* ------------------------------ C27 ----------------------------------- *)
\* task c has taken the step
StepOf(c) == bg'[c] # bg[c] \/ dr'[c] # dr[c]

\* C27: a step of the background task of createJob call c leaves a job that
\* another createJob call stored under the same id as it is: its fields
\* (status, progress, process, finishedAt), its outputHistory and its stream.
C27_OwnJobOnly ==
    [][\A c \in Creates : \A id \in CallIds :
          (/\ StepOf(c) /\ bg[c].id = id /\ cr[c].pc = "done"
           /\ SameJob(id) /\ Job(id).color # c)
              => /\ Job(id)' = Job(id)
                 /\ History(id)' = History(id)
                 /\ streams'[id] = streams[id]]_vars

(* ------------------------------ C28 ----------------------------------- *)
\* the background task of call c has been started, and its process has not
\* exited with both streams drained
Active(c) == bg[c].pc \in {"start", "spawn", "streams"}

\* C28: no step removes a job from the registry while the background task
\* that was started for it is active.
C28_NotRemovedWhileActive ==
    [][\A c \in Creates :
          (Active(c) /\ jobs[bg[c].id] # 0 /\ Job(bg[c].id).color = c)
              => jobs'[bg[c].id] # 0]_vars

(* ------------------------------ C29 ----------------------------------- *)
\* a terminateJob call has taken the step
TerminateStep == \E t \in Terms : tm'[t].pc # tm[t].pc

\* C29: a step of terminateJob leaves the job's progress and process handle
\* as the background task wrote them, removes no chunk from its outputHistory,
\* and leaves the status and finishedAt of a job that the task has finalized.
C29_TerminateFrame ==
    [][\A id \in CallIds :
          (TerminateStep /\ SameJob(id))
              => /\ Job(id)'.progress = Job(id).progress
                 /\ Job(id)'.process = Job(id).process
                 /\ IsPrefix(History(id), History(id)')
                 /\ Job(id).status \in {"completed", "failed"}
                        => /\ Job(id)'.status = Job(id).status
                           /\ Job(id)'.finishedAt = Job(id).finishedAt]_vars

(* ------------------------------ C30 ----------------------------------- *)
\* C30: the outputHistory of a stored job and the chunks of its stream hold at
\* most one system banner: completeJob, which appends the banner and then
\* writes status and finishedAt, runs at most once for a job.
C30_FinalizedOnce ==
    \A id \in CallIds :
        /\ jobs[id] # 0
               => Len(SelectSeq(History(id), LAMBDA ch : ch.type = "system")) <= 1
        /\ Len(SelectSeq(streams[id].chunks, LAMBDA ch : ch.type = "system")) <= 1

(* ------------------------------ C31 ----------------------------------- *)
\* C31: the registry never holds more than maxJobsInMemory jobs.
C31_WithinCapacity == Cardinality(StoredIds(Store)) <= MaxJobsInMemory

\* the registry is full and a createJob call was refused
C31_Witness ==
    /\ Cardinality(StoredIds(Store)) = MaxJobsInMemory
    /\ \E c \in Creates : cr[c].pc = "done" /\ cr[c].res = "Maximum job limit reached"

(* ------------------------------ C32 ----------------------------------- *)
\* C32: the outputHistory of a stored job and the chunks of its output stream
\* are the same sequence of chunks.
C32_HistoryIsStream ==
    \A id \in JobIds : jobs[id] # 0 => History(id) = streams[id].chunks

(* ------------------------------ C33 ----------------------------------- *)
\* the streams of task c that raised while they were iterated
Raised(c) == {s \in StreamNames : dr[c][s].last}

\* C33: a stream that raises leaves one chunk of type 'error' in the job's output
\* for each stream that raised; the other stream stays open for reading while
\* the process runs; the task does not go to its catch block; and the job ends
\* completed for exit code 0 and failed for any other exit code.
C33_StreamFailureIsolated ==
    \A c \in 1..1 :
        (bg[c].pc # "none" /\ jobs[bg[c].id] # 0) =>
            /\ Cardinality(OfType(bg[c].id, "error")) <= Cardinality(Raised(c))
            /\ Len(streams[bg[c].id].chunks) < MaxOutputChunks
                   => Cardinality(OfType(bg[c].id, "error")) = Cardinality(Raised(c))
            /\ Raised(c) # {} => bg[c].pc \notin {"thrown", "caught"}
            /\ bg[c].pc = "streams"
                   => \A s \in StreamNames \ Raised(c) : dr[c][s].pc \in {"read", "added", "got"}
            /\ (Raised(c) # {} /\ bg[c].pc = "done")
                   => /\ bg[c].exit >= 0
                      /\ Job(bg[c].id).status
                             = IF bg[c].exit = 0 THEN "completed" ELSE "failed"

\* stdout raised, stderr delivered a chunk after the error chunk, and the job
\* is completed
C33_Witness ==
    \E c \in 1..1 :
        /\ bg[c].pc = "done" /\ bg[c].exit = 0 /\ jobs[bg[c].id] # 0
        /\ Raised(c) = {"stdout"}
        /\ Job(bg[c].id).status = "completed"
        /\ \E i, j \in DOMAIN streams[bg[c].id].chunks :
               /\ i < j
               /\ streams[bg[c].id].chunks[i].type = "error"
               /\ streams[bg[c].id].chunks[j].type = "stderr"

(* ------------------------------ C34 ----------------------------------- *)
\* all the bytes of a stream
RECURSIVE Flatten(_)
Flatten(chunks) == IF chunks = <<>> THEN <<>> ELSE Head(chunks) \o Flatten(Tail(chunks))

\* the text the bytes stand for, when they are well-formed UTF-8
WellFormed(bytes) ==
    /\ Decode(NoPending, bytes, <<>>).decoder = NoPending
    /\ \A i \in DOMAIN Decode(NoPending, bytes, <<>>).text :
           Decode(NoPending, bytes, <<>>).text[i] # Replacement

\* C34: when the bytes each stream has delivered are well-formed, the text
\* decoded for a stream is the text of its bytes, however the bytes of a
\* character were split over chunks and however the chunks of the other stream
\* were interleaved.
C34_SplitCharacterReassembled ==
    (/\ ret.op = "processOutputStreams"
     /\ \A s \in StreamNames : WellFormed(Flatten(ret.arg[s])))
        => \A s \in StreamNames :
               ret.val.text[s] = Decode(NoPending, Flatten(ret.arg[s]), <<>>).text

(* ------------------------------ C35 ----------------------------------- *)
\* the items of a list up to its first item that is no text
RECURSIVE LeadingTexts(_)
LeadingTexts(items) ==
    IF items = <<>> \/ Head(items).type # "text" THEN <<>>
    ELSE <<Head(items)>> \o LeadingTexts(Tail(items))

\* the parser was called on an assistant message whose content is a list
ParsedList ==
    /\ ret.op = "parseClaudeJsonOutput"
    /\ ret.arg.json /\ ret.arg.type = "assistant" /\ ret.arg.array
    /\ ret.arg.content # <<>>

\* C35 as stated: nothing is extracted when the first item is no text; else the
\* extracted text is the joined text of the text items up to the first item
\* that is no text.
C35_StopsAtFirstNonText ==
    ParsedList =>
        IF Head(ret.arg.content).type # "text" THEN ret.val.null
        ELSE ~ret.val.null /\ ret.val.text = Join(LeadingTexts(ret.arg.content))

\* C35, amended: nothing is extracted when the first item is no text; else the
\* extracted text is the joined text of every text item of the list, in order,
\* those after an item that is no text included.
C35_AllTextItems ==
    ParsedList =>
        IF Head(ret.arg.content).type # "text" THEN ret.val.null
        ELSE /\ ~ret.val.null
             /\ ret.val.text
                    = Join(SelectSeq(ret.arg.content, LAMBDA item : item.type = "text"))

\* a text item, an item that is no text, and a text item: both texts are extracted
C35_Witness ==
    /\ ParsedList
    /\ Len(ret.arg.content) = 3
    /\ ret.arg.content[1].text = "a" /\ ret.arg.content[2].type = "tool_use"
    /\ ret.arg.content[3].text = "b"
    /\ ret.val = [null |-> FALSE, text |-> "ab"]

(* ------------------------------ C36 ----------------------------------- *)
\* the step is a storage.createJob call for an id that is not stored, made
\* when the registry is at capacity
CreateAtCapacity ==
    /\ ret' # ret /\ ret'.op = "createJob"
    /\ jobs[ret'.arg] = 0
    /\ AtCapacity(Store)

\* the stored jobs of the given statuses
WithStatus(statuses) == {i \in StoredIds(Store) : Job(i).status \in statuses}

\* the jobs the step removes
Evicted == {i \in StoredIds(Store) : jobs'[i] = 0}

\* C36 as stated: at capacity with a terminated job in the registry, createJob
\* stores the new job and removes one finished job (completed, failed or
\* terminated) that no finished job precedes by finishedAt.
C36_EvictsTerminated ==
    [][(CreateAtCapacity /\ WithStatus({"terminated"}) # {})
          => /\ ret'.val = "created" /\ jobs'[ret'.arg] # 0
             /\ \E i \in WithStatus(Final) :
                    /\ Evicted = {i}
                    /\ \A j \in WithStatus(Final) :
                           Job(i).finishedAt <= Job(j).finishedAt]_vars

\* C36, amended: at capacity createJob removes one completed or failed job that
\* no completed or failed job precedes by finishedAt, and stores the new job;
\* without a completed or failed job it fails with the capacity error and the
\* registry is as before. A terminated job is never removed.
C36_EvictsCompletedOrFailed ==
    [][CreateAtCapacity
          => /\ WithStatus({"terminated"}) \cap Evicted = {}
             /\ IF WithStatus({"completed", "failed"}) = {}
                THEN /\ ret'.val = "Maximum job limit reached"
                     /\ UNCHANGED storeVars
                ELSE /\ ret'.val = "created" /\ jobs'[ret'.arg] # 0
                     /\ \E i \in WithStatus({"completed", "failed"}) :
                            /\ Evicted = {i}
                            /\ \A j \in WithStatus({"completed", "failed"}) :
                                   Job(i).finishedAt <= Job(j).finishedAt]_vars

\* the registry is full, holds a terminated job and no completed or failed one,
\* and a createJob call has failed with the capacity error
C36_Witness ==
    /\ ret.op = "createJob" /\ ret.val = "Maximum job limit reached"
    /\ AtCapacity(Store)
    /\ WithStatus({"terminated"}) # {}
    /\ WithStatus({"completed", "failed"}) = {}

(* ------------------------------ C37 ----------------------------------- *)
\* C37: when a poll of the client returns, the chunks the client has been given
\* so far are the chunks stored for the job, each once and in stored order
\* (for a job that is stored and a stream that has dropped no chunk).
C37_PollDeliversAll ==
    [][(/\ Polling /\ ret.val.pc = "await" /\ ret.val.found
        /\ ret'.val.pc = "idle"
        /\ streams[ret.arg].present)
          => ret'.val.shown = streams[ret.arg].chunks]_vars

(* ------------------------------ C38 ----------------------------------- *)
\* C38: when the stream has ended and the buffer is flushed, the lines framed
\* from the chunks are the lines of the whole text that are not blank, in
\* order and each once, however the text was cut into chunks.
C38_FramingIgnoresChunking ==
    (ret.op = "processStreamChunk" /\ ret.val.pc = "done")
        => ret.val.lines = SelectSeq(Split(Flatten(ret.arg)), Trimmed)

\* a line cut in two by a chunk boundary, a blank line and a last line without
\* a newline
C38_Witness ==
    /\ ret.op = "processStreamChunk" /\ ret.val.pc = "done"
    /\ ret.arg = <<<<"a">>, <<"a", "\n">>, <<"\n", "a">>>>
    /\ ret.val.lines = <<<<"a", "a">>, <<"a">>>>

====
